---- MODULE Spec2Model ----
(***************************************************************************)
(* MealMind evaluation core: dietary compliance checking, ingredient and   *)
(* unit normalisation, and shopping-list aggregation.                      *)
(* Python strings are TLA+ strings; `in`, lower(), replace(), strip() and  *)
(* friends are computed character by character.                            *)
(***************************************************************************)
EXTENDS Integers, Sequences, FiniteSets, TLC

(***************************************************************************)
(* Python values and dictionaries.  A dict is a function from its keys; a  *)
(* value is tagged so that None, strings and numbers can be told apart.    *)
(***************************************************************************)
None == [tag |-> "None"]

Str(s) == [tag |-> "str", s |-> s]

Num(n) == [tag |-> "num", n |-> n]

Range(f) == {f[x] : x \in DOMAIN f}

\* dict.get(key, default)
Get(d, key, default) == IF key \in DOMAIN d THEN d[key] ELSE default

\* Python truthiness of a tagged value (None, "" and 0 are falsy)
Truthy(v) ==
    CASE v.tag = "None" -> FALSE
      [] v.tag = "str" -> v.s # ""
      [] v.tag = "num" -> v.n # 0

\* Python `a or b`
Or(a, b) == IF Truthy(a) THEN a ELSE b

(***************************************************************************)
(* String primitives.                                                      *)
(***************************************************************************)
Char(s, i) == SubSeq(s, i, i)

UpperToLower ==
    [A |-> "a", B |-> "b", C |-> "c", D |-> "d", E |-> "e", F |-> "f",
     G |-> "g", H |-> "h", I |-> "i", J |-> "j", K |-> "k", L |-> "l",
     M |-> "m", N |-> "n", O |-> "o", P |-> "p", Q |-> "q", R |-> "r",
     S |-> "s", T |-> "t", U |-> "u", V |-> "v", W |-> "w", X |-> "x",
     Y |-> "y", Z |-> "z"]

LowerChar(c) == IF c \in DOMAIN UpperToLower THEN UpperToLower[c] ELSE c

RECURSIVE Lower(_)
\* str.lower(), computed on the two halves of the string
Lower(s) ==
    IF Len(s) <= 1 THEN LowerChar(s)
    ELSE LET h == Len(s) \div 2
         IN  Lower(SubSeq(s, 1, h)) \o Lower(SubSeq(s, h + 1, Len(s)))

\* Python `sub in s`
Contains(sub, s) ==
    \E i \in 1..(Len(s) - Len(sub) + 1) : SubSeq(s, i, i + Len(sub) - 1) = sub

Min(S) == CHOOSE x \in S : \A y \in S : x <= y

Max(S) == CHOOSE x \in S : \A y \in S : y <= x

\* s.find(sub) + 1: position of the leftmost occurrence, 0 when there is none
Find(sub, s) ==
    LET hits == {i \in 1..(Len(s) - Len(sub) + 1) :
                    SubSeq(s, i, i + Len(sub) - 1) = sub}
    IN  IF hits = {} THEN 0 ELSE Min(hits)

RECURSIVE Replace(_, _, _)
\* str.replace(old, new) for non-empty old: leftmost, non-overlapping
Replace(s, old, new) ==
    LET at == Find(old, s)
    IN  IF at = 0 THEN s
        ELSE SubSeq(s, 1, at - 1) \o new
             \o Replace(SubSeq(s, at + Len(old), Len(s)), old, new)

\* the whitespace characters of the inputs: blank and tab
Whitespace == {" ", "\t"}

\* str.lstrip()
LStrip(s) ==
    LET keep == {i \in 1..Len(s) : Char(s, i) \notin Whitespace}
    IN  IF keep = {} THEN "" ELSE SubSeq(s, Min(keep), Len(s))

\* str.rstrip(c): removes every trailing occurrence of the character c
RStripChar(s, c) ==
    LET keep == {i \in 1..Len(s) : Char(s, i) # c}
    IN  IF keep = {} THEN "" ELSE SubSeq(s, 1, Max(keep))

\* str.strip()
Strip(s) ==
    LET t == LStrip(s)
        keep == {i \in 1..Len(t) : Char(t, i) \notin Whitespace}
    IN  IF keep = {} THEN "" ELSE SubSeq(t, 1, Max(keep))

(***************************************************************************)
(* Dietary compliance: keyword tables.                                     *)
(***************************************************************************)
ALLERGEN_KEYWORDS ==
       ("gluten-free" :> <<
            "wheat", "flour", "bread", "pasta", "barley", "rye",
            "couscous", "soy sauce", "beer", "malt", "seitan", "bulgur",
            "semolina", "orzo", "breadcrumbs", "croutons", "tortilla",
            "noodles", "cake", "cookie", "pastry", "pie crust", "batter",
            "breading" >>)
    @@ ("dairy-free" :> <<
            "milk", "cheese", "butter", "cream", "yogurt", "whey",
            "casein", "ghee", "lactose", "curd", "paneer", "ricotta",
            "mozzarella", "parmesan", "cheddar", "feta", "brie",
            "cottage cheese", "sour cream", "ice cream", "custard",
            "buttermilk" >>)
    @@ ("nut-free" :> <<
            "almond", "walnut", "cashew", "pistachio", "pecan", "hazelnut",
            "macadamia", "peanut", "nut butter", "marzipan", "praline",
            "nutella", "pine nut", "brazil nut", "chestnut", "nut oil",
            "nut flour" >>)
    @@ ("egg-free" :> <<
            "egg", "eggs", "mayonnaise", "aioli", "meringue", "custard",
            "hollandaise", "egg wash", "egg white", "egg yolk", "quiche",
            "frittata", "omelette", "scrambled" >>)
    @@ ("shellfish-free" :> <<
            "shrimp", "crab", "lobster", "prawn", "crawfish", "clam",
            "mussel", "oyster", "scallop", "crayfish", "langoustine" >>)
    @@ ("soy-free" :> <<
            "soy", "tofu", "tempeh", "edamame", "miso", "soy sauce",
            "soya", "soybean", "soy milk", "soy lecithin", "tamari",
            "teriyaki" >>)
    @@ ("vegetarian" :> <<
            "chicken", "beef", "pork", "lamb", "fish", "bacon", "ham",
            "turkey", "duck", "veal", "meat", "anchovy", "gelatin", "lard",
            "sausage", "pepperoni", "salami", "prosciutto", "steak",
            "ribs", "ground beef", "ground turkey", "salmon", "tuna",
            "shrimp", "cod" >>)
    @@ ("vegan" :> <<
            "chicken", "beef", "pork", "lamb", "fish", "bacon", "ham",
            "turkey", "duck", "veal", "meat", "anchovy", "milk", "cheese",
            "butter", "cream", "yogurt", "egg", "honey", "gelatin", "whey",
            "casein", "ghee", "lard", "sausage", "steak", "salmon", "shrimp" >>)
    @@ ("diabetic-friendly" :> << >>)
    @@ ("low-sodium" :> <<
            "soy sauce", "fish sauce", "worcestershire", "bouillon",
            "stock cube", "cured", "pickled", "salted", "smoked" >>)

SAFE_COMPOUNDS ==
       ("dairy-free" :> <<
            "coconut milk", "oat milk", "almond milk", "soy milk",
            "rice milk", "cashew milk", "hemp milk", "flax milk",
            "macadamia milk", "coconut cream", "coconut butter",
            "cocoa butter", "shea butter", "peanut butter",
            "almond butter", "cashew butter", "sunflower butter",
            "seed butter", "soy butter", "coconut yogurt", "soy yogurt",
            "oat yogurt", "almond yogurt", "vegan cheese",
            "nutritional yeast", "coconut ice cream", "vegan ice cream",
            "coconut custard", "coconut milk powder",
            "full-fat coconut milk" >>)
    @@ ("vegan" :> <<
            "coconut milk", "oat milk", "almond milk", "soy milk",
            "rice milk", "cashew milk", "hemp milk", "flax milk",
            "macadamia milk", "coconut cream", "coconut butter",
            "cocoa butter", "peanut butter", "almond butter",
            "cashew butter", "sunflower butter", "coconut yogurt",
            "soy yogurt", "oat yogurt", "vegan cheese", "vegan sausage",
            "vegan steak", "coconut ice cream", "vegan ice cream",
            "vegan egg", "egg substitute", "egg replacer", "vegan honey",
            "agave" >>)
    @@ ("gluten-free" :> <<
            "almond flour", "coconut flour", "rice flour", "oat flour",
            "chickpea flour", "tapioca flour", "cassava flour",
            "teff flour", "buckwheat flour", "sorghum flour",
            "millet flour", "gluten-free pasta", "gluten-free bread",
            "gluten-free noodles", "gluten-free tortilla", "corn tortilla",
            "gluten-free soy sauce", "tamari", "rice noodles",
            "glass noodles", "zucchini noodles", "rice cake" >>)
    @@ ("nut-free" :> <<
            "coconut", "coconut milk", "coconut cream", "coconut flour",
            "coconut oil", "coconut butter" >>)
(***************************************************************************)
(* Dietary compliance: evaluate_dietary_compliance.                        *)
(* Scores 1.0 and 0.0 are written 1 and 0.                                 *)
(***************************************************************************)
\* mutant: the allowlist entry must equal the whole ingredient name
IsSafeCompoundExact(ingredient, restriction_key) ==
    LET safe_list == Get(SAFE_COMPOUNDS, restriction_key, << >>)
    IN  \E i \in 1..Len(safe_list) : safe_list[i] = ingredient

\* SAFE_COMPOUNDS.get(restriction_key, []) scanned for a substring hit
_is_safe_compound(ingredient, restriction_key) ==
    LET safe_list == Get(SAFE_COMPOUNDS, restriction_key, << >>)
    IN  \E i \in 1..Len(safe_list) : Contains(safe_list[i], ingredient)

\* mutant: underscores are not turned into hyphens
RestrictionKeyNoUnderscore(restriction) ==
    Replace(Lower(restriction), " ", "-")

\* restriction.lower().replace('_', '-').replace(' ', '-')
RestrictionKey(restriction) ==
    Replace(Replace(Lower(restriction), "_", "-"), " ", "-")

\* ALLERGEN_KEYWORDS.get(restriction_key, [])
KeywordsFor(restriction_key) == Get(ALLERGEN_KEYWORDS, restriction_key, << >>)

\* mutant: the loop has no break, so the last matching keyword is recorded
KeywordLoopLast(keywords, ingredient, k) ==
    LET hits == {h \in k..Len(keywords) : Contains(keywords[h], ingredient)}
    IN  IF hits = {} THEN 0 ELSE CHOOSE h \in hits : \A g \in hits : g <= h

RECURSIVE KeywordLoop(_, _, _)
\* for keyword in keywords: if keyword in ingredient: ...; break
\* index of the keyword that is recorded, 0 when the loop ends without a hit
KeywordLoop(keywords, ingredient, k) ==
    IF k > Len(keywords) THEN 0
    ELSE IF Contains(keywords[k], ingredient) THEN k
    ELSE KeywordLoop(keywords, ingredient, k + 1)

Violation(restriction, ingredient, keyword) ==
    [restriction |-> restriction, ingredient |-> ingredient,
     matchedKeyword |-> keyword, detectionMethod |-> "keyword"]

RECURSIVE IngredientLoop(_, _, _)
\* for ingredient in ingredient_names: the violations appended for one restriction
IngredientLoop(restriction, ingredient_names, j) ==
    IF j > Len(ingredient_names) THEN << >>
    ELSE LET ingredient == ingredient_names[j]
             restriction_key == RestrictionKey(restriction)
             keywords == KeywordsFor(restriction_key)
             k == KeywordLoop(keywords, ingredient, 1)
             found == IF _is_safe_compound(ingredient, restriction_key) THEN << >>
                      ELSE IF k = 0 THEN << >>
                      ELSE << Violation(restriction, ingredient, keywords[k]) >>
         IN  found \o IngredientLoop(restriction, ingredient_names, j + 1)

RECURSIVE RestrictionLoop(_, _, _)
\* for restriction in restrictions: keyword_violations in append order
RestrictionLoop(restrictions, ingredient_names, i) ==
    IF i > Len(restrictions) THEN << >>
    ELSE IngredientLoop(restrictions[i], ingredient_names, 1)
         \o RestrictionLoop(restrictions, ingredient_names, i + 1)

\* ing.get('name', ''): the value whose .lower() is taken
IngredientNameValue(ing) == Get(ing, "name", Str(""))

\* mutant: a single violation is tolerated
VerdictTolerant(keyword_violations) == Len(keyword_violations) <= 1

\* score / passed from the collected violations
Verdict(keyword_violations) == Len(keyword_violations) = 0

\* mutant: the early return for an empty restriction list is missing
NoRestrictionsNever(restrictions) == Len(restrictions) < 0

\* `if not restrictions`
NoRestrictions(restrictions) == Len(restrictions) = 0

evaluate_dietary_compliance(recipe, restrictions) ==
    IF NoRestrictions(restrictions)
    THEN [raised |-> FALSE, score |-> 1, passed |-> TRUE,
          violations |-> << >>, confidence |-> 1]
    ELSE LET ingredients == Get(recipe, "ingredients", << >>)
         IN  IF \E j \in 1..Len(ingredients) :
                    IngredientNameValue(ingredients[j]).tag # "str"
             THEN \* None.lower() raises AttributeError
                  [raised |-> TRUE, error |-> "AttributeError"]
             ELSE LET ingredient_names ==
                          [j \in 1..Len(ingredients) |->
                              Lower(IngredientNameValue(ingredients[j]).s)]
                      keyword_violations ==
                          RestrictionLoop(restrictions, ingredient_names, 1)
                      is_safe == Verdict(keyword_violations)
                  IN  [raised |-> FALSE,
                       score |-> IF is_safe THEN 1 ELSE 0,
                       passed |-> is_safe,
                       violations |-> keyword_violations,
                       confidence |-> 1,
                       keywordViolations |-> Len(keyword_violations),
                       llmViolations |-> 0,
                       checkedRestrictions |-> restrictions]

(***************************************************************************)
(* Dietary compliance: check_meal_plan_compliance.                         *)
(* A rate is the exact fraction num/den.                                   *)
(***************************************************************************)
Rate(num, den) == [num |-> num, den |-> den]

\* r == a/b as exact fractions
RateIs(r, a, b) == r.num * b = a * r.den

RECURSIVE MealPositions(_, _)
\* (day index, meal index) of every meal, in the order the two loops visit them
MealPositions(days, d) ==
    IF d > Len(days) THEN << >>
    ELSE [m \in 1..Len(Get(days[d], "meals", << >>)) |-> <<d, m>>]
         \o MealPositions(days, d + 1)

DaysOf(plan) == Get(plan, "days", << >>)

MealAt(plan, pos) == Get(DaysOf(plan)[pos[1]], "meals", << >>)[pos[2]]

\* {**violation, 'day': ..., 'mealType': ..., 'recipeName': ...}
TagViolation(violation, day, meal) ==
    [restriction |-> violation.restriction,
     ingredient |-> violation.ingredient,
     matchedKeyword |-> violation.matchedKeyword,
     detectionMethod |-> violation.detectionMethod,
     day |-> Get(day, "dayName", Str("Unknown")),
     mealType |-> Get(meal, "mealType", Str("Unknown")),
     recipeName |-> Get(meal, "recipeName", Str("Unknown"))]

\* meals_compliant / meals_checked if meals_checked > 0 else 1.0
ComplianceRate(compliant, checked) ==
    IF checked > 0 THEN Rate(compliant, checked) ELSE Rate(1, 1)

\* mutant: a majority of compliant meals passes the plan
PlanPassedMajority(compliance_rate) ==
    2 * compliance_rate.num >= compliance_rate.den

\* compliance_rate == 1.0
PlanPassed(compliance_rate) == RateIs(compliance_rate, 1, 1)

PlanResult(violations, checked, compliant) ==
    LET compliance_rate == ComplianceRate(compliant, checked)
    IN  [score |-> IF PlanPassed(compliance_rate) THEN 1 ELSE 0,
         passed |-> PlanPassed(compliance_rate),
         complianceRate |-> compliance_rate,
         mealsChecked |-> checked,
         mealsCompliant |-> compliant,
         violations |-> violations]
(***************************************************************************)
(* Shopping list: normalize_unit and normalize_ingredient_name.            *)
(***************************************************************************)
unit_map ==
       ("tbsp" :> "tablespoon")
    @@ ("tsp" :> "teaspoon")
    @@ ("oz" :> "ounce")
    @@ ("lb" :> "pound")
    @@ ("qt" :> "quart")
    @@ ("pt" :> "pint")
    @@ ("gal" :> "gallon")
    @@ ("ml" :> "milliliter")
    @@ ("l" :> "liter")
    @@ ("g" :> "gram")
    @@ ("kg" :> "kilogram")
    @@ ("c" :> "cup")

normalize_unit(unit_arg) ==
    LET unit == Strip(Lower(unit_arg))
        unit_singular == RStripChar(unit, "s")
        normalized == Get(unit_map, unit_singular, unit_singular)
    IN  IF normalized = unit_singular /\ unit \in DOMAIN unit_map
        THEN unit_map[unit]
        ELSE normalized

modifiers_to_remove ==
    <<
        "fresh ", "frozen ", "dried ", "canned ", "chopped ", "diced ",
        "minced ", "sliced ", "grated ", "shredded ", "peeled ",
        "unpeeled ", "whole ", "halved ", "quartered ", "cooked ",
        "uncooked ", "raw ", "roasted ", "boneless ", "skinless ",
        "bone-in ", "organic ", "free-range ", "grass-fed ", "unsalted ",
        "salted ", "sweetened ", "unsweetened ", "extra virgin ",
        "virgin ", "refined ", "large ", "medium ", "small ", "baby " >>

singular_map ==
       ("eggs" :> "egg")
    @@ ("onions" :> "onion")
    @@ ("tomatoes" :> "tomato")
    @@ ("potatoes" :> "potato")
    @@ ("sweet potatoes" :> "sweet potato")
    @@ ("carrots" :> "carrot")
    @@ ("cloves" :> "clove")
    @@ ("bananas" :> "banana")
    @@ ("apples" :> "apple")
    @@ ("berries" :> "berry")
    @@ ("beans" :> "bean")
    @@ ("green beans" :> "green bean")
    @@ ("chickpeas" :> "chickpea")
    @@ ("lentils" :> "lentil")
    @@ ("peppers" :> "pepper")
    @@ ("bell peppers" :> "bell pepper")
    @@ ("mushrooms" :> "mushroom")
    @@ ("zucchinis" :> "zucchini")
    @@ ("cucumbers" :> "cucumber")
    @@ ("avocados" :> "avocado")
    @@ ("lemons" :> "lemon")
    @@ ("limes" :> "lime")
    @@ ("oranges" :> "orange")
    @@ ("strawberries" :> "strawberry")
    @@ ("blueberries" :> "blueberry")
    @@ ("raspberries" :> "raspberry")

RECURSIVE RemoveModifiers(_, _, _)
\* for modifier in modifiers_to_remove: name = name.replace(modifier, '')
\* for the modifiers at positions lo..hi, in list order: the first half of
\* the range is removed, then the second half from the result
\* (an empty name stays empty whatever is removed from it)
RemoveModifiers(name, lo, hi) ==
    IF lo > hi \/ name = "" THEN name
    ELSE IF lo = hi THEN Replace(name, modifiers_to_remove[lo], "")
    ELSE LET mid == (lo + hi) \div 2
         IN  RemoveModifiers(RemoveModifiers(name, lo, mid), mid + 1, hi)

RECURSIVE SqueezeSpaces(_)
\* every run of blanks becomes one blank
SqueezeSpaces(s) ==
    IF Find("  ", s) = 0 THEN s ELSE SqueezeSpaces(Replace(s, "  ", " "))

\* ' '.join(name.split()): split() cuts at every run of whitespace
CollapseSpaces(s) == SqueezeSpaces(Replace(Strip(s), "\t", " "))

normalize_ingredient_name(name_arg) ==
    LET name == CollapseSpaces(RemoveModifiers(Strip(Lower(name_arg)), 1,
                                               Len(modifiers_to_remove)))
    IN  Get(singular_map, name, name)

(***************************************************************************)
(* Shopping list: infer_category.                                          *)
(***************************************************************************)
produce_keywords ==
    <<
        "lettuce", "tomato", "onion", "garlic", "carrot", "celery",
        "pepper", "cucumber", "zucchini", "broccoli", "spinach", "kale",
        "cabbage", "mushroom", "potato", "avocado", "lemon", "lime",
        "orange", "apple", "banana", "berry", "basil", "cilantro",
        "parsley", "lettuce", "arugula" >>

dairy_keywords ==
    <<
        "milk", "cream", "cheese", "butter", "yogurt", "sour cream",
        "parmesan", "mozzarella", "cheddar", "feta" >>

meat_keywords ==
    <<
        "chicken", "beef", "pork", "turkey", "lamb", "fish", "salmon",
        "tuna", "shrimp", "bacon", "sausage", "ham" >>

pantry_keywords ==
    <<
        "flour", "sugar", "rice", "pasta", "bread", "oil", "vinegar",
        "sauce", "stock", "broth", "beans", "chickpea", "lentil", "honey",
        "maple", "peanut butter", "jam" >>

spice_keywords ==
    <<
        "salt", "pepper", "cumin", "paprika", "oregano", "thyme",
        "cinnamon", "nutmeg", "ginger", "curry", "chili", "cayenne",
        "turmeric", "coriander", "bay leaf", "vanilla" >>

frozen_keywords ==
    <<
        "frozen", "ice cream", "popsicle" >>

\* for keyword in keywords: if keyword in name: return ...
AnyKeyword(keywords, name) ==
    \E i \in 1..Len(keywords) : Contains(keywords[i], name)

\* mutant: the categories are tried in the order of the sort's category list
InferCategoryListOrder(ingredient_name) ==
    LET name == Lower(ingredient_name)
    IN  IF AnyKeyword(produce_keywords, name) THEN "produce"
        ELSE IF AnyKeyword(dairy_keywords, name) THEN "dairy"
        ELSE IF AnyKeyword(meat_keywords, name) THEN "meat"
        ELSE IF AnyKeyword(pantry_keywords, name) THEN "pantry"
        ELSE IF AnyKeyword(spice_keywords, name) THEN "spices"
        ELSE IF AnyKeyword(frozen_keywords, name) THEN "frozen"
        ELSE "other"

infer_category(ingredient_name) ==
    LET name == Lower(ingredient_name)
    IN  IF AnyKeyword(produce_keywords, name) THEN "produce"
        ELSE IF AnyKeyword(dairy_keywords, name) THEN "dairy"
        ELSE IF AnyKeyword(meat_keywords, name) THEN "meat"
        ELSE IF AnyKeyword(spice_keywords, name) THEN "spices"
        ELSE IF AnyKeyword(frozen_keywords, name) THEN "frozen"
        ELSE IF AnyKeyword(pantry_keywords, name) THEN "pantry"
        ELSE "other"

(***************************************************************************)
(* Shopping list: aggregate_ingredients.                                   *)
(***************************************************************************)
category_order ==
    <<
        "produce", "dairy", "meat", "pantry", "spices", "frozen", "other" >>

\* characters in code-point order, for Python's string comparison
CharOrder ==
    " -0123456789ABCDEFGHIJKLMNOPQRSTUVWXYZ_abcdefghijklmnopqrstuvwxyz|"

Ord(c) == CHOOSE i \in 1..Len(CharOrder) : Char(CharOrder, i) = c

\* Python a < b on strings
StrLess(a, b) ==
    LET n == IF Len(a) < Len(b) THEN Len(a) ELSE Len(b)
        diff == {i \in 1..n : Char(a, i) # Char(b, i)}
    IN  IF diff = {} THEN Len(a) < Len(b)
        ELSE Ord(Char(a, Min(diff))) < Ord(Char(b, Min(diff)))

RECURSIVE FlattenMeals(_, _)
\* every meal of every day, in loop order
FlattenMeals(days, d) ==
    IF d > Len(days) THEN << >>
    ELSE Get(days[d], "meals", << >>) \o FlattenMeals(days, d + 1)

RECURSIVE FlattenEntries(_, _)
\* every ingredient record with the recipe name of its meal, in loop order
FlattenEntries(meals, m) ==
    IF m > Len(meals) THEN << >>
    ELSE LET ings == Get(meals[m], "ingredients", << >>)
         IN  [i \in 1..Len(ings) |->
                 [recipe_name |-> Get(meals[m], "recipeName", Str("Unknown")),
                  ing |-> ings[i]]]
             \o FlattenEntries(meals, m + 1)

PlanEntries(plan) == FlattenEntries(FlattenMeals(DaysOf(plan), 1), 1)

\* mutant: the unit is left out of the grouping key
AggKeyNameOnly(name_normalized, unit_normalized) == name_normalized \o "|"

\* f"{name_normalized}|{unit_normalized}"
AggKey(name_normalized, unit_normalized) ==
    name_normalized \o "|" \o unit_normalized

\* position of key in the insertion-ordered dict, 0 when absent
KeyIndex(aggregated, key) ==
    IF \E i \in 1..Len(aggregated) : aggregated[i].key = key
    THEN CHOOSE i \in 1..Len(aggregated) : aggregated[i].key = key
    ELSE 0

\* the body of the innermost loop for one ingredient record
AggregateOne(aggregated, recipe_name, ing) ==
    LET original_name == Get(ing, "name", Str("")).s
        name_normalized == normalize_ingredient_name(original_name)
        amount == Or(Get(ing, "amount", None), Num(0)).n
        original_unit == Or(Get(ing, "unit", None), Str("")).s
        unit_normalized == normalize_unit(original_unit)
        given == Get(ing, "category", Str(""))
        category == IF ~Truthy(given) \/ given = Str("other")
                    THEN infer_category(original_name)
                    ELSE given.s
        key == AggKey(name_normalized, unit_normalized)
        at == KeyIndex(aggregated, key)
        display_unit == IF Strip(unit_normalized) # ""
                        THEN unit_normalized ELSE original_unit
    IN  IF at # 0
        THEN [aggregated EXCEPT
                 ![at].item.amount = @ + amount,
                 ![at].item.fromRecipes = Append(@, recipe_name)]
        ELSE Append(aggregated,
                 [key |-> key,
                  item |-> [name |-> original_name,
                            amount |-> amount,
                            unit |-> display_unit,
                            category |-> category,
                            fromRecipes |-> << recipe_name >>,
                            checked |-> FALSE]])

RECURSIVE AggregateLoop(_, _, _)
\* the three nested loops over the flattened entries; the dict is looked at
\* in every iteration and never holds more keys than entries were read
AggregateLoop(entries, i, aggregated) ==
    IF i > Len(entries) \/ Len(aggregated) >= i THEN aggregated
    ELSE AggregateLoop(entries, i + 1,
             AggregateOne(aggregated, entries[i].recipe_name, entries[i].ing))

\* mutant: the ids count from 1
WithIdsFromOne(aggregated) ==
    [i \in 1..Len(aggregated) |->
        [id |-> "item-" \o ToString(i),
         name |-> aggregated[i].item.name,
         amount |-> aggregated[i].item.amount,
         unit |-> aggregated[i].item.unit,
         category |-> aggregated[i].item.category,
         fromRecipes |-> Range(aggregated[i].item.fromRecipes),
         checked |-> aggregated[i].item.checked]]

\* item['id'] = f"item-{i}"; item['fromRecipes'] = list(set(...))
\* the list made from a set has no defined order: it is kept as a set
WithIds(aggregated) ==
    [i \in 1..Len(aggregated) |->
        [id |-> "item-" \o ToString(i - 1),
         name |-> aggregated[i].item.name,
         amount |-> aggregated[i].item.amount,
         unit |-> aggregated[i].item.unit,
         category |-> aggregated[i].item.category,
         fromRecipes |-> Range(aggregated[i].item.fromRecipes),
         checked |-> aggregated[i].item.checked]]

\* category_order.index(c) if c in category_order else 999
CategoryRank(c) ==
    IF \E i \in 1..Len(category_order) : category_order[i] = c
    THEN (CHOOSE i \in 1..Len(category_order) : category_order[i] = c) - 1
    ELSE 999

\* the sort key compares as a tuple (rank, name)
SortKeyLess(x, y) ==
    \/ CategoryRank(x.category) < CategoryRank(y.category)
    \/ /\ CategoryRank(x.category) = CategoryRank(y.category)
       /\ StrLess(x.name, y.name)

RECURSIVE InsertSorted(_, _)
\* x goes before the first element that is greater than it
InsertSorted(sorted, x) ==
    IF sorted = << >> THEN << x >>
    ELSE IF SortKeyLess(x, Head(sorted)) THEN << x >> \o sorted
    ELSE << Head(sorted) >> \o InsertSorted(Tail(sorted), x)

\* mutant: the result is returned in insertion order
StableSortSkipped(items, i, sorted) == items

RECURSIVE StableSort(_, _, _)
\* list.sort(key=...): stable
StableSort(items, i, sorted) ==
    IF i > Len(items) \/ Len(sorted) = Len(items) THEN sorted
    ELSE StableSort(items, i + 1, InsertSorted(sorted, items[i]))

aggregate_ingredients(plan) ==
    LET entries == PlanEntries(plan)
    IN  IF \E i \in 1..Len(entries) :
               Get(entries[i].ing, "name", Str("")).tag # "str"
        THEN \* normalize_ingredient_name(None): None.lower() raises
             [raised |-> TRUE, error |-> "AttributeError"]
        ELSE [raised |-> FALSE,
              items |-> StableSort(WithIds(AggregateLoop(entries, 1, << >>)),
                                   1, << >>)]

\* the position of the first record whose name the loop cannot normalize
\* (key absent, or a value without lower()), 0 if there is none
FirstBadName(items) ==
    LET bad == {i \in 1..Len(items) :
                   \/ "name" \notin DOMAIN items[i]
                   \/ items[i].name.tag # "str"}
    IN  IF bad = {} THEN 0 ELSE Min(bad)

\* mutant: the names are collected as written
RawNameSet(items) ==
    {items[i].name.s : i \in 1..Len(items)}

\* the set built by one of the two loops
NormalizedNameSet(items) ==
    {normalize_ingredient_name(items[i].name.s) : i \in 1..Len(items)}

\* list(s): the elements of a set, each once, in an order the set decides
Listings(s) ==
    {l \in [1..Cardinality(s) -> s] : Range(l) = s}

\* listing is the order in which list(missing) enumerates the set
deterministic_completeness_check(meal_ingredients_arg, shopping_items_arg, listing) ==
    LET bad_meal == FirstBadName(meal_ingredients_arg)
        bad_item == FirstBadName(shopping_items_arg)
    IN  IF bad_meal > 0
        THEN \* ing['name'] raises KeyError, None.lower() AttributeError
             [raised |-> TRUE,
              error |-> IF "name" \notin DOMAIN meal_ingredients_arg[bad_meal]
                        THEN "KeyError" ELSE "AttributeError"]
        ELSE IF bad_item > 0
        THEN [raised |-> TRUE,
              error |-> IF "name" \notin DOMAIN shopping_items_arg[bad_item]
                        THEN "KeyError" ELSE "AttributeError"]
        ELSE LET meal_ingredient_names ==
                     NormalizedNameSet(meal_ingredients_arg)
                 shopping_item_names == NormalizedNameSet(shopping_items_arg)
                 missing == meal_ingredient_names \ shopping_item_names
             IN  [raised |-> FALSE,
                  has_missing |-> Cardinality(missing) > 0,
                  missing_normalized |-> listing,
                  meal_count |-> Cardinality(meal_ingredient_names),
                  shopping_count |-> Cardinality(shopping_item_names)]

\* the set the call turns into the list missing_normalized
MissingNames(meal_ingredients_arg, shopping_items_arg) ==
    IF FirstBadName(meal_ingredients_arg) > 0
       \/ FirstBadName(shopping_items_arg) > 0
    THEN {}
    ELSE NormalizedNameSet(meal_ingredients_arg)
         \ NormalizedNameSet(shopping_items_arg)

(***************************************************************************)
(* State: the call in progress and its locals.                             *)
(***************************************************************************)
VARIABLES
    op,               \* operation last called ("none" before any call)
    pc,               \* "idle", "loop", "returned", "raised"
    recipe,           \* argument of evaluate_dietary_compliance
    restrictions,     \* argument of both compliance operations
    meal_plan,        \* argument of check_meal_plan_compliance
    pos,              \* number of meals the plan loop has visited
    all_violations,   \* check_meal_plan_compliance local
    meals_checked,    \* check_meal_plan_compliance local
    meals_compliant,  \* check_meal_plan_compliance local
    text,             \* string argument of a normalizer call
    meal_ingredients, \* argument of deterministic_completeness_check
    shopping_items,   \* argument of deterministic_completeness_check
    shopping_list,    \* argument of evaluate_shopping_completeness
    precheck,         \* evaluate_shopping_completeness local
    response,         \* what the awaited judge or generator call produced
    attempt,          \* number of generator calls the handler has awaited
    evaluation_scores, \* handler local: the evaluation of the LLM output
    store,            \* the records the handler has written to the database
    calls,            \* the calls threads make on one shared plan
    result            \* value returned by the call, once pc = "returned"

vars == <<op, pc, recipe, restrictions, meal_plan, pos, all_violations,
          meals_checked, meals_compliant, text, meal_ingredients,
          shopping_items, shopping_list, precheck, response, attempt,
          evaluation_scores, store, calls, result>>

\* the variables of evaluate_shopping_completeness and of the request
\* handlers
handler_vars ==
    <<shopping_list, precheck, response, attempt, evaluation_scores, store,
      calls>>

(***************************************************************************)
(* Bounds and input universes.                                             *)
(***************************************************************************)
MaxIngredients == 2

MaxRestrictions == 2

MaxMeals == 2

MaxDays == 2

SeqsUpTo(S, n) == UNION {[1..k -> S] : k \in 0..n}

RECURSIVE Pick(_, _, _)
\* the entries of master at the positions in chosen, in master's order
Pick(master, chosen, i) ==
    IF i > Len(master) THEN << >>
    ELSE (IF i \in chosen THEN << master[i] >> ELSE << >>)
         \o Pick(master, chosen, i + 1)

\* the sub-sequences of master with at most n entries
SubSeqsUpTo(master, n) ==
    {Pick(master, chosen, 1) :
        chosen \in {c \in SUBSET (1..Len(master)) : Cardinality(c) <= n}}

\* ingredient records: named, with the name key absent, with name None;
\* one name occurs twice so that a recipe can list an ingredient twice
IngredientMaster ==
    << [name |-> Str("unsweetened almond milk")],
       [name |-> Str("Buttermilk Bread")],
       [amount |-> Num(1)],
       [name |-> Str("soy sauce")],
       [name |-> None],
       [name |-> Str("Buttermilk Bread")] >>

RecipeUniverse ==
    {[recipeName |-> Str("Dish"), ingredients |-> ings] :
        ings \in SubSeqsUpTo(IngredientMaster, MaxIngredients)}
    \cup {[recipeName |-> Str("Bare")]}

\* known and unknown restrictions, three spellings of one key, one key with
\* an empty keyword list
RestrictionMaster ==
    << "keto", "dairy-free", "Gluten Free", "gluten_free", "GLUTEN-FREE",
       "nut-free", "diabetic-friendly" >>

RestrictionLists == SubSeqsUpTo(RestrictionMaster, MaxRestrictions)

\* recipes to compare the restrictions vegan and vegetarian on: fish in only
\* one of the two keyword lists, an allow-listed compound that holds a
\* keyword, an animal product that is no meat, a plant
StrictnessCases ==
    LET named == {[name |-> Str(n)] :
                     n \in {"canned tuna", "Vegan Sausage", "Honey",
                            "chicken breast", "Rice"}}
    IN  {<< [recipeName |-> Str("Dish"), ingredients |-> ings], << r >> >> :
            ings \in SeqsUpTo(named, MaxIngredients) \ {<< >>},
            r \in {"vegan", "vegetarian"}}

\* meals of a plan: compliant (allow-listed), violating, malformed
MealMaster ==
    << [recipeName |-> Str("Smoothie Bowl"), mealType |-> Str("lunch"),
        ingredients |-> << [name |-> Str("Rice")],
                           [name |-> Str("unsweetened almond milk")] >>],
       [recipeName |-> Str("Toast"), mealType |-> Str("breakfast"),
        ingredients |-> << [name |-> Str("soy sauce")],
                           [name |-> Str("Buttermilk Bread")] >>],
       [recipeName |-> Str("Broken"),
        ingredients |-> << [name |-> None],
                           [name |-> Str("Buttermilk Bread")] >>] >>

DayUniverse ==
    {[dayName |-> Str("Monday"), meals |-> ms] :
        ms \in SubSeqsUpTo(MealMaster, MaxMeals)}
    \cup {[dayName |-> Str("Sunday")]}

PlanUniverse ==
    {[days |-> ds] : ds \in SeqsUpTo(DayUniverse, MaxDays)}

PlanRestrictionLists ==
    {<< >>, << "dairy-free" >>, << "keto" >>, << "gluten_free", "Dairy Free" >>}

MaxTrailingS == 2

RECURSIVE Repeat(_, _)
Repeat(s, n) == IF n = 0 THEN "" ELSE s \o Repeat(s, n - 1)

\* unit strings: table keys and values, unknown units, with plural endings,
\* upper case and surrounding blanks
UnitStems ==
    DOMAIN unit_map \cup Range(unit_map)
    \cup {"", "large", "glas", "clove", "Cup", "TBSP", "cup ", "fl oz",
          "tbsp\t"}

UnitUniverse ==
    {pad \o stem \o Repeat("s", k) \o pad :
        pad \in {"", " "}, stem \in UnitStems, k \in 0..MaxTrailingS}

NameBases ==
    {"basil", "Basil", "chopped tomatoes", "potato", "Onions", "almond milk"}

\* ingredient names: every modifier in front of every base name
NameUniverse ==
    {m \o b : m \in Range(modifiers_to_remove) \cup {""}, b \in NameBases}
    \cup {"", "Fresh Basil", "Unpeeled Potatoes", " fresh  basil ",
          "fresh\tbasil", "freshchopped  basil", "chopped\t\tonions\t"}

Ing(name, amount, unit) ==
    [name |-> Str(name), amount |-> Num(amount), unit |-> Str(unit)]

\* meals of a plan to aggregate: shared ingredients under different spellings
\* and units, records with fields missing, a record with name None, names
\* and units that hold the separator of the aggregation key
ShoppingMealMaster ==
    << [recipeName |-> Str("Omelette"),
        ingredients |-> << Ing("eggs", 2, "large"), Ing("butter", 1, "tbsp"),
                           Ing("Cheddar", 50, "g") >>],
       [recipeName |-> Str("Cake"),
        ingredients |-> << Ing("Eggs", 3, "large"), Ing("flour", 1, "cup"),
                           Ing("flour", 200, "g"),
                           Ing("butter", 2, "tablespoon"),
                           [name |-> Str("fresh basil"), unit |-> None,
                            category |-> Str("herbs")] >>],
       [recipeName |-> Str("Broken"),
        ingredients |-> << [name |-> None, amount |-> Num(1)] >>],
       [recipeName |-> Str("Brine"),
        ingredients |-> << Ing("salt|sea", 1, "pinch"),
                           Ing("salt", 2, "sea|pinch") >>] >>

ShoppingDayUniverse ==
    {[dayName |-> Str("Monday"), meals |-> ms] :
        ms \in SubSeqsUpTo(ShoppingMealMaster, MaxMeals)}
    \cup {[dayName |-> Str("Sunday")]}

ShoppingPlanUniverse ==
    {[days |-> ds] : ds \in SeqsUpTo(ShoppingDayUniverse, MaxDays)}

NoResult == [raised |-> FALSE, none |-> TRUE]

NoResponse == [kind |-> "none"]

\* no plan has been handed to threads
NoCalls == [plan |-> [days |-> << >>], thread |-> << >>]

Init ==
    /\ op = "none"
    /\ pc = "idle"
    /\ recipe = [recipeName |-> Str("Bare")]
    /\ restrictions = << >>
    /\ meal_plan = [days |-> << >>]
    /\ pos = 0
    /\ all_violations = << >>
    /\ meals_checked = 0
    /\ meals_compliant = 0
    /\ text = ""
    /\ meal_ingredients = << >>
    /\ shopping_items = << >>
    /\ shopping_list = [items |-> << >>]
    /\ precheck = NoResult
    /\ response = NoResponse
    /\ attempt = 0
    /\ evaluation_scores = NoResult
    /\ store = << >>
    /\ calls = NoCalls
    /\ result = NoResult

\* a call starts from the idle state; each behaviour follows one call
Callable == pc = "idle"

\* one call of evaluate_dietary_compliance(recipe, restrictions)
EvaluateDietaryCompliance ==
    /\ Callable
    /\ \E c \in (RecipeUniverse \X RestrictionLists) \cup StrictnessCases :
          LET res == evaluate_dietary_compliance(c[1], c[2])
          IN  /\ op' = "evaluate"
              /\ recipe' = c[1]
              /\ restrictions' = c[2]
              /\ result' = res
              /\ pc' = IF res.raised THEN "raised" ELSE "returned"
    /\ meal_plan' = [days |-> << >>]
    /\ pos' = 0
    /\ all_violations' = << >>
    /\ meals_checked' = 0
    /\ meals_compliant' = 0
    /\ UNCHANGED text
    /\ UNCHANGED <<meal_ingredients, shopping_items>>
    /\ UNCHANGED handler_vars

\* entry of check_meal_plan_compliance(meal_plan, restrictions)
CheckMealPlanCall ==
    /\ Callable
    /\ \E p \in PlanUniverse, rs \in PlanRestrictionLists :
          /\ meal_plan' = p
          /\ restrictions' = rs
    /\ op' = "check_plan"
    /\ pc' = "loop"
    /\ recipe' = [recipeName |-> Str("Bare")]
    /\ pos' = 0
    /\ all_violations' = << >>
    /\ meals_checked' = 0
    /\ meals_compliant' = 0
    /\ result' = NoResult
    /\ UNCHANGED text
    /\ UNCHANGED <<meal_ingredients, shopping_items>>
    /\ UNCHANGED handler_vars

RECURSIVE TagAll(_, _, _)
TagAll(violations, day, meal) ==
    IF violations = << >> THEN << >>
    ELSE << TagViolation(Head(violations), day, meal) >>
         \o TagAll(Tail(violations), day, meal)

\* one iteration of the inner loop: the next meal of the plan is evaluated
CheckMeal ==
    /\ pc = "loop"
    /\ pos < Len(MealPositions(DaysOf(meal_plan), 1))
    /\ LET at == MealPositions(DaysOf(meal_plan), 1)[pos + 1]
           day == DaysOf(meal_plan)[at[1]]
           meal == MealAt(meal_plan, at)
           res == evaluate_dietary_compliance(meal, restrictions)
       IN  IF res.raised
           THEN /\ pc' = "raised"
                /\ result' = res
                /\ meals_checked' = meals_checked + 1
                /\ UNCHANGED <<pos, all_violations, meals_compliant>>
           ELSE /\ pos' = pos + 1
                /\ meals_checked' = meals_checked + 1
                /\ meals_compliant' =
                      IF res.passed THEN meals_compliant + 1 ELSE meals_compliant
                /\ all_violations' =
                      IF res.passed THEN all_violations
                      ELSE all_violations \o TagAll(res.violations, day, meal)
                /\ UNCHANGED <<pc, result>>
    /\ UNCHANGED <<op, recipe, restrictions, meal_plan, text>>
    /\ UNCHANGED <<meal_ingredients, shopping_items>>
    /\ UNCHANGED handler_vars

\* both loops are exhausted: the summary is returned
CheckMealPlanReturn ==
    /\ pc = "loop"
    /\ pos = Len(MealPositions(DaysOf(meal_plan), 1))
    /\ result' = [raised |-> FALSE] @@
                 PlanResult(all_violations, meals_checked, meals_compliant)
    /\ pc' = "returned"
    /\ UNCHANGED <<op, recipe, restrictions, meal_plan, pos, all_violations,
                   meals_checked, meals_compliant, text>>
    /\ UNCHANGED <<meal_ingredients, shopping_items>>
    /\ UNCHANGED handler_vars

Next ==
    \/ EvaluateDietaryCompliance
    \/ CheckMealPlanCall
    \/ CheckMeal
    \/ CheckMealPlanReturn

Spec == Init /\ [][Next]_vars

DietaryIdle ==
    /\ recipe' = [recipeName |-> Str("Bare")]
    /\ restrictions' = << >>
    /\ pos' = 0
    /\ all_violations' = << >>
    /\ meals_checked' = 0
    /\ meals_compliant' = 0

\* one call of normalize_unit(text)
NormalizeUnit ==
    /\ Callable
    /\ \E u \in UnitUniverse :
          /\ text' = u
          /\ result' = [raised |-> FALSE, value |-> normalize_unit(u)]
    /\ op' = "normalize_unit"
    /\ pc' = "returned"
    /\ DietaryIdle
    /\ UNCHANGED meal_plan
    /\ UNCHANGED <<meal_ingredients, shopping_items>>
    /\ UNCHANGED handler_vars

\* one call of normalize_ingredient_name(text)
NormalizeIngredientName ==
    /\ Callable
    /\ \E n \in NameUniverse :
          /\ text' = n
          /\ result' = [raised |-> FALSE, value |-> normalize_ingredient_name(n)]
    /\ op' = "normalize_ingredient_name"
    /\ pc' = "returned"
    /\ DietaryIdle
    /\ UNCHANGED meal_plan
    /\ UNCHANGED <<meal_ingredients, shopping_items>>
    /\ UNCHANGED handler_vars

\* one call of aggregate_ingredients(meal_plan)
AggregateIngredients ==
    /\ Callable
    /\ \E p \in ShoppingPlanUniverse :
          LET res == aggregate_ingredients(p)
          IN  /\ meal_plan' = p
              /\ result' = res
              /\ pc' = IF res.raised THEN "raised" ELSE "returned"
    /\ op' = "aggregate_ingredients"
    /\ DietaryIdle
    /\ UNCHANGED text
    /\ UNCHANGED <<meal_ingredients, shopping_items>>
    /\ UNCHANGED handler_vars

\* names for infer_category: keywords of one category, of several
\* categories at once, of none; keywords inside longer words; upper case
CategoryNameUniverse ==
    {"", "quinoa", "eggs", "Romaine Lettuce", "Black Pepper", "Whole Milk",
     "peanut butter", "Ice Cream", "butternut squash", "Chicken Breast",
     "frozen fish sticks", "graham crackers", "Sea Salt", "chili sauce",
     "frozen peas", "frozen bread", "popsicle", "olive oil", "Soy Sauce",
     "CUMIN", "strawberry jam"}

\* one call of infer_category(text)
InferCategory ==
    /\ Callable
    /\ \E n \in CategoryNameUniverse :
          /\ text' = n
          /\ result' = [raised |-> FALSE, value |-> infer_category(n)]
    /\ op' = "infer_category"
    /\ pc' = "returned"
    /\ DietaryIdle
    /\ UNCHANGED meal_plan
    /\ UNCHANGED <<meal_ingredients, shopping_items>>
    /\ UNCHANGED handler_vars

\* longest ingredient list and longest shopping list of a completeness check
MaxListed == 2

\* records of either list: names that normalize to the same and to different
\* names, a record without name, a record with a null name
ListedRecords ==
    { [name |-> Str("Fresh Eggs"), amount |-> Num(2), unit |-> Str("large")],
      [name |-> Str("egg")],
      [name |-> Str("Chopped Onions"), amount |-> Num(1)],
      [amount |-> Num(1), unit |-> Str("cup")],
      [name |-> None] }

ListedUniverse == SeqsUpTo(ListedRecords, MaxListed)

\* one call of deterministic_completeness_check(meal_ingredients,
\* shopping_items)
DeterministicCompletenessCheck ==
    /\ Callable
    /\ \E mi \in ListedUniverse, si \in ListedUniverse :
          \E listing \in Listings(MissingNames(mi, si)) :
             LET res == deterministic_completeness_check(mi, si, listing)
             IN  /\ meal_ingredients' = mi
                 /\ shopping_items' = si
                 /\ result' = res
                 /\ pc' = IF res.raised THEN "raised" ELSE "returned"
    /\ op' = "deterministic_completeness_check"
    /\ DietaryIdle
    /\ UNCHANGED <<meal_plan, text>>
    /\ UNCHANGED handler_vars

NextShopping ==
    \/ NormalizeUnit
    \/ NormalizeIngredientName
    \/ AggregateIngredients
    \/ InferCategory
    \/ DeterministicCompletenessCheck

SpecShopping == Init /\ [][NextShopping]_vars

(***************************************************************************)
(* Variety scorer: evaluate_meal_variety.                                  *)
(* The floats of the code are modelled by exact fractions; for plans of    *)
(* fewer than eight meals every comparison and rounding made here has the  *)
(* same outcome in both.                                                   *)
(***************************************************************************)
PROTEIN_KEYWORDS ==
    << "chicken", "beef", "pork", "fish", "tofu", "lamb", "shrimp",
       "turkey", "salmon", "tuna", "eggs", "beans", "lentils", "tempeh" >>

RECURSIVE Gcd(_, _)
Gcd(a, b) == IF b = 0 THEN a ELSE Gcd(b, a % b)

\* the fraction n / d, d > 0, in lowest terms
Frac(n, d) ==
    LET g == Gcd(IF n < 0 THEN -n ELSE n, d)
    IN  [num |-> n \div g, den |-> d \div g]

FracAdd(x, y) == Frac(x.num * y.den + y.num * x.den, x.den * y.den)

FracSub(x, y) == Frac(x.num * y.den - y.num * x.den, x.den * y.den)

FracMul(x, y) == Frac(x.num * y.num, x.den * y.den)

FracLeq(x, y) == x.num * y.den <= y.num * x.den

FracMin(x, y) == IF FracLeq(x, y) THEN x ELSE y

FracMax(x, y) == IF FracLeq(x, y) THEN y ELSE x

\* round(x, 3) for x >= 0, in thousandths: the nearest multiple of 0.001,
\* a tie going to the even one
Round3(x) ==
    LET scaled == Frac(1000 * x.num, x.den)
        whole == scaled.num \div scaled.den
        rest == Frac(scaled.num - whole * scaled.den, scaled.den)
    IN  IF rest = Frac(1, 2)
        THEN (IF whole % 2 = 0 THEN whole ELSE whole + 1)
        ELSE IF FracLeq(rest, Frac(1, 2)) THEN whole ELSE whole + 1

\* the meals of the plan in loop order: day by day, meal by meal
VarietyMeals(plan) == FlattenMeals(Get(plan, "days", << >>), 1)

\* the protein appended for one ingredient name: the first keyword of the
\* list that occurs in it, "" when there is none
ProteinOf(name) ==
    LET hits == {k \in 1..Len(PROTEIN_KEYWORDS) :
                    Contains(PROTEIN_KEYWORDS[k], name)}
    IN  IF hits = {} THEN "" ELSE PROTEIN_KEYWORDS[Min(hits)]

\* the values on which the data collection loop calls .lower()
LoweredValues(meals) ==
    {Get(meals[m], "recipeName", Str("")) : m \in 1..Len(meals)}
    \cup {Get(meals[m], "cuisine", Str("unknown")) : m \in 1..Len(meals)}
    \cup UNION {{Get(ing, "name", Str("")) :
                    ing \in Range(Get(meals[m], "ingredients", << >>))} :
                m \in 1..Len(meals)}

\* the number of times the repetition loop adds 0.1
Repetitions(all_recipes) ==
    Cardinality({i \in 1..(Len(all_recipes) - 1) :
                    all_recipes[i] = all_recipes[i + 1]})

\* mutant: the recipe name is read from the key 'name'
AllRecipesByNameKey(meals) ==
    [m \in 1..Len(meals) |-> Lower(Get(meals[m], "name", Str("")).s)]

\* all_recipes: the lower-cased recipe names in loop order
AllRecipes(meals) ==
    [m \in 1..Len(meals) |-> Lower(Get(meals[m], "recipeName", Str("")).s)]

\* final_score >= 0.55
PassThreshold == Frac(55, 100)

\* mutant: the number of recipes as it is
RecipeCount(all_recipes) == Len(all_recipes)

\* total_recipes = len(all_recipes) or 1
TotalRecipes(all_recipes) ==
    IF Len(all_recipes) = 0 THEN 1 ELSE Len(all_recipes)

evaluate_meal_variety(plan) ==
    LET meals == VarietyMeals(plan)
    IN  IF \E v \in LoweredValues(meals) : v.tag # "str"
        THEN \* None.lower() raises
             [raised |-> TRUE, error |-> "AttributeError"]
        ELSE IF TotalRecipes(AllRecipes(meals)) = 0
        THEN \* unique_recipes / total_recipes
             [raised |-> TRUE, error |-> "ZeroDivisionError"]
        ELSE
        LET all_recipes == AllRecipes(meals)
            cuisines ==
                [m \in 1..Len(meals) |->
                    Lower(Get(meals[m], "cuisine", Str("unknown")).s)]
            proteins ==
                UNION {{ProteinOf(Lower(Get(ing, "name", Str("")).s)) :
                           ing \in Range(Get(meals[m], "ingredients", << >>))} :
                       m \in 1..Len(meals)} \ {""}
            total_recipes == TotalRecipes(all_recipes)
            unique_recipes == Cardinality(Range(all_recipes))
            recipe_uniqueness == Frac(unique_recipes, total_recipes)
            unique_cuisines == Cardinality(Range(cuisines))
            cuisine_diversity == FracMin(Frac(unique_cuisines, 3), Frac(1, 1))
            unique_proteins == Cardinality(proteins)
            protein_diversity == FracMin(Frac(unique_proteins, 3), Frac(1, 1))
            repetition_penalty == Frac(Repetitions(all_recipes), 10)
            deterministic_score ==
                FracSub(FracAdd(FracAdd(FracMul(recipe_uniqueness, Frac(4, 10)),
                                        FracMul(cuisine_diversity, Frac(3, 10))),
                                FracMul(protein_diversity, Frac(3, 10))),
                        repetition_penalty)
            final_score ==
                FracMax(Frac(0, 1), FracMin(Frac(1, 1), deterministic_score))
        IN  [raised |-> FALSE,
             score |-> Round3(final_score),
             passed |-> FracLeq(PassThreshold, final_score),
             deterministic |->
                 [recipeUniqueness |-> Round3(recipe_uniqueness),
                  cuisineDiversity |-> Round3(cuisine_diversity),
                  proteinDiversity |-> Round3(protein_diversity),
                  uniqueRecipes |-> unique_recipes,
                  totalRecipes |-> total_recipes,
                  uniqueCuisines |-> unique_cuisines,
                  uniqueProteins |-> unique_proteins,
                  repetitionPenalty |-> Round3(repetition_penalty)]]

\* the bound of the variety inputs: the number of meals of a plan
MaxSlots == 5

\* meals that share a recipe name up to letter case, a meal without cuisine,
\* an ingredient without name, an ingredient name with two protein keywords
VarietyMealSet ==
    { [recipeName |-> Str("Tacos"), cuisine |-> Str("Mexican"),
       ingredients |-> << [name |-> Str("Chicken Breast")] >>],
      [recipeName |-> Str("tacos"),
       ingredients |-> << [name |-> Str("ground beef")], [amount |-> Num(1)] >>],
      [recipeName |-> Str("Curry"), cuisine |-> Str("Indian"),
       ingredients |-> << [name |-> Str("Tofu")],
                          [name |-> Str("chicken thigh")] >>],
      [recipeName |-> Str("Salad"), cuisine |-> Str("Greek"),
       ingredients |-> << [name |-> Str("tuna salmon mix")] >>] }

\* the meals cut into days of n meals each
Chunk(meals, n) ==
    [d \in 1..((Len(meals) + n - 1) \div n) |->
        [dayName |-> Str("Day"),
         meals |-> SubSeq(meals, (d - 1) * n + 1, Min({d * n, Len(meals)}))]]

\* plans of up to MaxSlots meals in days of two, and plans with parts
\* missing or null
VarietyPlanUniverse ==
    {[days |-> Chunk(meals, 2)] : meals \in SeqsUpTo(VarietyMealSet, MaxSlots)}
    \cup { [planName |-> Str("no days")],
           [days |-> << [dayName |-> Str("Sunday")] >>],
           [days |-> << [meals |-> << [mealType |-> Str("snack")],
                                      [mealType |-> Str("snack")] >>] >>],
           [days |-> << [meals |-> << [recipeName |-> None] >>] >>],
           [days |-> << [meals |-> << [recipeName |-> Str("Soup"),
                                       cuisine |-> None] >>] >>] }

\* one call of evaluate_meal_variety(meal_plan)
EvaluateMealVariety ==
    /\ Callable
    /\ \E p \in VarietyPlanUniverse :
          LET res == evaluate_meal_variety(p)
          IN  /\ meal_plan' = p
              /\ result' = res
              /\ pc' = IF res.raised THEN "raised" ELSE "returned"
    /\ op' = "evaluate_meal_variety"
    /\ DietaryIdle
    /\ UNCHANGED text
    /\ UNCHANGED <<meal_ingredients, shopping_items>>
    /\ UNCHANGED handler_vars

NextVariety == EvaluateMealVariety

SpecVariety == Init /\ [][NextVariety]_vars

(***************************************************************************)
(* Binary64 arithmetic, as Python floats compute the weighted scores.      *)
(***************************************************************************)
\* natural numbers of any size as sequences of digits of LimbBits bits,
\* lowest digit first, highest digit not 0 (zero is the empty sequence)
LimbBits == 13

LimbBase == 2 ^ LimbBits

\* zero digits above the highest digit removed
Trim(b) ==
    LET nonzero == {i \in 1..Len(b) : b[i] # 0}
    IN  IF nonzero = {} THEN << >> ELSE SubSeq(b, 1, Max(nonzero))

RECURSIVE Carry(_, _, _, _)
\* the number whose digit of weight LimbBase^(i-1) is cols[i], any natural
Carry(cols, i, carry, acc) ==
    IF (i > Len(cols) /\ carry = 0) \/ carry < 0 \/ Len(acc) >= i
    THEN Trim(acc)
    ELSE LET s == (IF i <= Len(cols) THEN cols[i] ELSE 0) + carry
         IN  Carry(cols, i + 1, s \div LimbBase, Append(acc, s % LimbBase))

DigitAt(b, i) == IF i \in 1..Len(b) THEN b[i] ELSE 0

BigAdd(a, b) ==
    LET n == Max({Len(a), Len(b)})
    IN  Carry(SubSeq([i \in 1..n |-> DigitAt(a, i) + DigitAt(b, i)], 1, n),
              1, 0, << >>)

RECURSIVE ColumnSum(_, _, _, _, _)
\* the sum of the products a[i] * b[k + 1 - i]
ColumnSum(a, b, k, i, sum) ==
    IF i > Len(a) \/ sum < 0 THEN sum
    ELSE ColumnSum(a, b, k, i + 1, sum + a[i] * DigitAt(b, k + 1 - i))

BigMul(a, b) ==
    LET n == Len(a) + Len(b)
    IN  Carry(SubSeq([k \in 1..n |-> ColumnSum(a, b, k, 1, 0)], 1, n),
              1, 0, << >>)

\* number of bits of a number
BitLen(b) ==
    IF b = << >> THEN 0
    ELSE LimbBits * (Len(b) - 1)
         + Cardinality({j \in 0..(LimbBits - 1) : 2 ^ j <= b[Len(b)]})

\* b * 2^k
ShiftLeft(b, k) ==
    [i \in 1..(k \div LimbBits) |-> 0]
    \o Carry(SubSeq([i \in 1..Len(b) |-> b[i] * 2 ^ (k % LimbBits)],
                    1, Len(b)),
             1, 0, << >>)

\* b \div 2^k
ShiftRight(b, k) ==
    LET q == k \div LimbBits
        r == k % LimbBits
    IN  IF q >= Len(b) THEN << >>
        ELSE Trim(SubSeq(
                 [i \in 1..(Len(b) - q) |->
                     b[q + i] \div 2 ^ r
                     + (DigitAt(b, q + i + 1) % 2 ^ r) * 2 ^ (LimbBits - r)],
                 1, Len(b) - q))

\* b / 2^k rounded to the nearest natural, ties to even
ShiftRightRound(b, k) ==
    LET q == ShiftRight(b, k)
        half == ShiftRight(b, k - 1)
        below == \/ \E i \in 1..((k - 1) \div LimbBits) : DigitAt(b, i) # 0
                 \/ DigitAt(b, (k - 1) \div LimbBits + 1)
                        % 2 ^ ((k - 1) % LimbBits) # 0
        up == /\ DigitAt(half, 1) % 2 = 1
              /\ below \/ DigitAt(q, 1) % 2 = 1
    IN  IF k = 0 THEN b
        ELSE IF up THEN BigAdd(q, << 1 >>) ELSE q

RECURSIVE DivFrom(_, _, _, _, _)
\* long division of a by the small number n from the highest digit; acc is
\* the quotient
DivFrom(a, n, i, rem, acc) ==
    IF i < 1 \/ rem < 0 \/ Len(acc) < 0 THEN [q |-> Trim(acc), r |-> rem]
    ELSE LET cur == LimbBase * rem + a[i]
         IN  DivFrom(a, n, i - 1, cur % n, << cur \div n >> \o acc)

\* a binary64 value is m * 2^e with m of exactly MantissaBits bits, or zero
MantissaBits == 53

\* the binary64 nearest to n * 2^e (round to nearest, ties to even)
RoundToDouble(n, e) ==
    LET len == BitLen(n)
    IN  IF len = 0 THEN [m |-> << >>, e |-> 0]
        ELSE IF len <= MantissaBits
        THEN [m |-> ShiftLeft(n, MantissaBits - len),
              e |-> e - (MantissaBits - len)]
        ELSE LET s == len - MantissaBits
                 q == ShiftRightRound(n, s)
             IN  IF BitLen(q) > MantissaBits
                 THEN [m |-> ShiftRight(q, 1), e |-> e + s + 1]
                 ELSE [m |-> q, e |-> e + s]

\* float(n / den): the binary64 nearest to the decimal, den a small number
DoubleOf(n, den) ==
    LET shifted == ShiftLeft(Trim(<< n >>), MantissaBits + 12)
        qr == DivFrom(shifted, den, Len(shifted), 0, << >>)
        sticky == IF qr.r > 0 THEN << 1 >> ELSE << >>
    IN  RoundToDouble(BigAdd(ShiftLeft(qr.q, 1), sticky),
                      0 - (MantissaBits + 13))

\* x * y
DoubleMul(x, y) == RoundToDouble(BigMul(x.m, y.m), x.e + y.e)

\* x + y
DoubleAdd(x, y) ==
    IF x.m = << >> THEN y
    ELSE IF y.m = << >> THEN x
    ELSE LET e == Min({x.e, y.e})
         IN  RoundToDouble(BigAdd(ShiftLeft(x.m, x.e - e),
                                  ShiftLeft(y.m, y.e - e)), e)

\* x >= y
DoubleGeq(x, y) ==
    IF y.m = << >> THEN TRUE
    ELSE IF x.m = << >> THEN FALSE
    ELSE LET e == Min({x.e, y.e})
             a == ShiftLeft(x.m, x.e - e)
             b == ShiftLeft(y.m, y.e - e)
             d == {i \in 1..Max({Len(a), Len(b)}) :
                      DigitAt(a, i) # DigitAt(b, i)}
         IN  d = {} \/ DigitAt(a, Max(d)) > DigitAt(b, Max(d))

\* round(x, 3) in thousandths, for 0 <= x < 2
DoubleRound3(x) ==
    IF x.m = << >> THEN 0
    ELSE LET q == ShiftRightRound(BigMul(x.m, << 1000 >>), 0 - x.e)
         IN  DigitAt(q, 1) + LimbBase * DigitAt(q, 2)

(***************************************************************************)
(* evaluate_shopping_completeness: the pre-check, the awaited judge call   *)
(* and the decision.  Returned scores are in thousandths.                  *)
(***************************************************************************)
\* a JSON number with two decimals, a JSON list
Hundredths(h) == [tag |-> "num", hundredths |-> h]

List(items) == [tag |-> "list", items |-> items]

\* Python `v or ''`
OrEmpty(v) == IF v \in {None, Str(""), Num(0)} THEN Str("") ELSE v

\* ingredient_details
IngredientDetails(plan) ==
    LET entries == PlanEntries(plan)
    IN  [i \in 1..Len(entries) |->
            [name |-> OrEmpty(Get(entries[i].ing, "name", None)),
             amount |-> OrEmpty(Get(entries[i].ing, "amount", None)),
             unit |-> OrEmpty(Get(entries[i].ing, "unit", None)),
             recipe |-> entries[i].recipe_name]]

\* shopping_details
ShoppingDetails(list) ==
    LET items == Get(list, "items", << >>)
    IN  [i \in 1..Len(items) |->
            [name |-> OrEmpty(Get(items[i], "name", None)),
             amount |-> OrEmpty(Get(items[i], "amount", None)),
             unit |-> OrEmpty(Get(items[i], "unit", None)),
             category |-> OrEmpty(Get(items[i], "category", None))]]

\* the fields a response that parses to a JSON object may carry or lack
required_fields ==
    << "completeness_score", "combination_score", "precision_score" >>

\* mutant: a failed judge call counts as a report without missing items
JudgedResultFailingOpen(response_arg) ==
    IF response_arg.kind = "json"
    THEN [f \in Range(required_fields) \ DOMAIN response_arg.fields |->
             Hundredths(50)] @@ response_arg.fields
    ELSE [completeness_score |-> Hundredths(0),
          combination_score |-> Hundredths(0),
          precision_score |-> Hundredths(0),
          error |-> Str("error")]

\* the dict `result` after the try statement
JudgedResult(response_arg) ==
    IF response_arg.kind = "json"
    THEN [f \in Range(required_fields) \ DOMAIN response_arg.fields |->
             Hundredths(50)] @@ response_arg.fields
    ELSE [completeness_score |-> Hundredths(0),
          combination_score |-> Hundredths(0),
          precision_score |-> Hundredths(0),
          missing_items |->
              List(<< IF response_arg.kind = "bad_json"
                      THEN "ERROR: Failed to parse evaluation"
                      ELSE "ERROR: Evaluation failed" >>),
          error |-> Str("error")]

\* the float literals 0.6, 0.3, 0.1 of the weighted sum and 0.8 of the
\* pass mark
ScoreWeights ==
    [completeness_score |-> DoubleOf(6, 10),
     combination_score |-> DoubleOf(3, 10),
     precision_score |-> DoubleOf(1, 10)]

CompletenessPassMark == DoubleOf(8, 10)

\* the float json.loads makes of a number with two decimals
FloatOfHundredths == [h \in 0..100 |-> DoubleOf(h, 100)]

\* final_score of the branch without missing items
WeightedScore(judged) ==
    LET Weighted(f) == DoubleMul(FloatOfHundredths[judged[f].hundredths],
                                 ScoreWeights[f])
    IN  DoubleAdd(DoubleAdd(Weighted("completeness_score"),
                            Weighted("combination_score")),
                  Weighted("precision_score"))

\* the returned dict
Returned(judged, decision, ingredients_needed, items_listed) ==
    [raised |-> FALSE,
     score |-> decision.score,
     passed |-> decision.passed,
     missingItems |-> Get(judged, "missing_items", List(<< >>)).items,
     incorrectlyCombined |-> Get(judged, "incorrectly_combined", List(<< >>)),
     phantomItems |-> Get(judged, "phantom_items", List(<< >>)),
     totalIngredientsNeeded |-> ingredients_needed,
     totalShoppingItems |-> items_listed,
     reasoning |-> Get(judged, "reasoning", Str(""))]

\* the statements after the try statement
Decide(judged, ingredients_needed, items_listed) ==
    IF Get(judged, "missing_items", List(<< >>)).tag # "list"
    THEN \* len(None)
         [raised |-> TRUE, error |-> "TypeError"]
    ELSE IF Len(Get(judged, "missing_items", List(<< >>)).items) > 0
    THEN Returned(judged, [score |-> 0, passed |-> FALSE],
                  ingredients_needed, items_listed)
    ELSE IF \E f \in Range(required_fields) : judged[f].tag # "num"
    THEN \* None * 0.6
         [raised |-> TRUE, error |-> "TypeError"]
    ELSE LET final_score == WeightedScore(judged)
         IN  Returned(judged,
                      [score |-> DoubleRound3(final_score),
                       passed |-> DoubleGeq(final_score,
                                            CompletenessPassMark)],
                      ingredients_needed, items_listed)

\* the part of evaluate_shopping_completeness after the judge call
evaluate_shopping_completeness(meal_plan_arg, shopping_list_arg, response_arg) ==
    Decide(JudgedResult(response_arg),
           Len(IngredientDetails(meal_plan_arg)),
           Len(ShoppingDetails(shopping_list_arg)))

\* a field the object does not carry
Absent == [tag |-> "absent"]

\* scores the judge reports, in hundredths
JudgeScores == {75, 80, 95, 100}

\* the JSON objects of the judge: each score given or left out, the list of
\* missing items left out, empty or not; and objects with a null field
JudgeFields ==
    {[k \in {k \in DOMAIN a : a[k] # Absent} |-> a[k]] :
        a \in [completeness_score :
                   {Absent} \cup {Hundredths(h) : h \in JudgeScores},
               combination_score :
                   {Absent} \cup {Hundredths(h) : h \in JudgeScores},
               precision_score :
                   {Absent} \cup {Hundredths(h) : h \in JudgeScores},
               missing_items :
                   {Absent, List(<< >>), List(<< "2 cup flour" >>)}]}
    \cup { [completeness_score |-> Hundredths(100), missing_items |-> None],
           [completeness_score |-> None, combination_score |-> Hundredths(100),
            precision_score |-> Hundredths(100), missing_items |-> List(<< >>)] }

\* what awaiting llm.ainvoke(prompt) and parsing the content can produce:
\* the call raises, the content has no '{', json.loads raises, or it
\* returns an object
JudgeResponses ==
    {[kind |-> "raise"], [kind |-> "no_json"], [kind |-> "bad_json"]}
    \cup {[kind |-> "json", fields |-> f] : f \in JudgeFields}

\* a plan with its complete list, with an incomplete list and with a list
\* without items; a plan whose only ingredient has a null name; a plan with
\* a numeric unit
CompletenessCases ==
    LET omelette == [days |-> << [dayName |-> Str("Monday"),
                                  meals |-> << ShoppingMealMaster[1] >>] >>]
        Item(name, amount, unit, category) ==
            [name |-> Str(name), amount |-> Num(amount), unit |-> Str(unit),
             category |-> Str(category)]
    IN  { << omelette,
             [items |-> << Item("butter", 1, "tablespoon", "dairy"),
                           Item("Cheddar", 50, "gram", "dairy"),
                           Item("egg", 2, "large", "dairy") >>] >>,
          << omelette,
             [items |-> << Item("egg", 2, "large", "dairy") >>] >>,
          << [days |-> << [meals |-> << ShoppingMealMaster[3] >>] >>],
             [listName |-> Str("empty")] >>,
          << [days |-> << [meals |-> << [recipeName |-> Str("Odd"),
                 ingredients |-> << [name |-> Str("rice"),
                                     unit |-> Num(2)] >>] >>] >>],
             [items |-> << >>] >> }

\* entry of evaluate_shopping_completeness(meal_plan, shopping_list), up to
\* the await of the judge call
EvaluateShoppingCompletenessCall ==
    /\ Callable
    /\ \E c \in CompletenessCases :
          LET mi == IngredientDetails(c[1])
              si == ShoppingDetails(c[2])
          IN  /\ meal_plan' = c[1]
              /\ shopping_list' = c[2]
              /\ IF \E d \in Range(mi) : d.unit.tag # "str"
                 \* normalize_unit(unit) of a unit that is no string
                 THEN /\ precheck' = NoResult
                      /\ result' = [raised |-> TRUE, error |-> "AttributeError"]
                      /\ pc' = "raised"
                 ELSE \E listing \in Listings(MissingNames(mi, si)) :
                         LET pre == deterministic_completeness_check(mi, si,
                                                                     listing)
                         IN  /\ precheck' = pre
                             /\ result' = IF pre.raised THEN pre ELSE NoResult
                             /\ pc' = IF pre.raised THEN "raised"
                                      ELSE "await_judge"
    /\ op' = "evaluate_shopping_completeness"
    /\ response' = NoResponse
    /\ DietaryIdle
    /\ UNCHANGED calls
    /\ UNCHANGED <<text, meal_ingredients, shopping_items, attempt,
                   evaluation_scores, store>>

\* the awaited judge call completes and the decision is returned
JudgeResponds ==
    /\ pc = "await_judge"
    /\ op = "evaluate_shopping_completeness"
    /\ \E r \in JudgeResponses :
          LET res == evaluate_shopping_completeness(meal_plan, shopping_list, r)
          IN  /\ response' = r
              /\ result' = res
              /\ pc' = IF res.raised THEN "raised" ELSE "returned"
    /\ UNCHANGED calls
    /\ UNCHANGED <<op, meal_plan, shopping_list, precheck, recipe,
                   restrictions, pos, all_violations, meals_checked,
                   meals_compliant, text, meal_ingredients, shopping_items,
                   attempt, evaluation_scores, store>>

NextCompleteness ==
    \/ EvaluateShoppingCompletenessCall
    \/ JudgeResponds

SpecCompleteness == Init /\ [][NextCompleteness]_vars

(***************************************************************************)
(* Request handlers: meal-plan generation (mealplans/generate.py) and      *)
(* single-meal regeneration (mealplans/regenerate.py).  A handler takes a  *)
(* step at each awaited generator call, at its evaluation and at its       *)
(* database writes.  Scores 1.0 and 0.0 of the compliance and nutrition    *)
(* results are written 1 and 0, the variety score and the overall score    *)
(* are in thousandths.                                                     *)
(***************************************************************************)
\* check_meal_plan_compliance(meal_plan, restrictions), awaited as one call
check_meal_plan_compliance(plan, restrictions_arg) ==
    LET at == MealPositions(DaysOf(plan), 1)
        res == [p \in 1..Len(at) |->
                   evaluate_dietary_compliance(MealAt(plan, at[p]),
                                               restrictions_arg)]
        RECURSIVE Gather(_)
        Gather(p) ==
            IF p > Len(at) THEN << >>
            ELSE (IF res[p].passed THEN << >>
                  ELSE TagAll(res[p].violations, DaysOf(plan)[at[p][1]],
                              MealAt(plan, at[p])))
                 \o Gather(p + 1)
    IN  IF \E p \in 1..Len(at) : res[p].raised
        THEN [raised |-> TRUE, error |-> "AttributeError"]
        ELSE [raised |-> FALSE]
             @@ PlanResult(Gather(1), Len(at),
                           Cardinality({p \in 1..Len(at) : res[p].passed}))

\* evaluate_nutrition(meal_plan): a fixed result
evaluate_nutrition(plan) == [raised |-> FALSE, score |-> 1, passed |-> TRUE]

\* weights that put variety first
VarietyFirstWeights ==
    [dietaryCompliance |-> DoubleOf(3, 10), variety |-> DoubleOf(5, 10),
     nutrition |-> DoubleOf(2, 10)]

\* the literals 0.5, 0.3 and 0.2 of overall_score
OverallWeights ==
    [dietaryCompliance |-> DoubleOf(5, 10), variety |-> DoubleOf(3, 10),
     nutrition |-> DoubleOf(2, 10)]

\* overall_score and the dict evaluation_scores
EvaluationScores(compliance_result, variety_result, nutrition_result) ==
    LET overall_score ==
            DoubleAdd(
                DoubleAdd(DoubleMul(DoubleOf(compliance_result.score, 1),
                                    OverallWeights.dietaryCompliance),
                          DoubleMul(DoubleOf(variety_result.score, 1000),
                                    OverallWeights.variety)),
                DoubleMul(DoubleOf(nutrition_result.score, 1),
                          OverallWeights.nutrition))
    IN  [dietaryCompliance |-> compliance_result.score,
         variety |-> variety_result.score,
         nutrition |-> nutrition_result.score,
         overall |-> DoubleRound3(overall_score),
         passed |-> /\ compliance_result.passed
                    /\ DoubleGeq(overall_score, DoubleOf(6, 10))]

\* a loop with a third pass
ThreeAttempts == 2 + 1

\* for attempt in range(2)
GenerationAttempts == 2

\* the restrictions of the family a handler works for
HandlerRestrictions == {<< >>, << "dairy-free" >>, << "vegetarian" >>}

\* meals the generator writes: compliant, violating one restriction or the
\* other, with a null ingredient name
GeneratedMeals ==
    Range(MealMaster)
    \cup {[recipeName |-> Str("Tacos"), cuisine |-> Str("Mexican"),
           ingredients |-> << [name |-> Str("Chicken Breast")] >>],
          [recipeName |-> Str("Curry"), cuisine |-> Str("Indian"),
           ingredients |-> << [name |-> Str("Tofu")] >>]}

\* what awaiting llm.ainvoke(prompt) and parsing the content can produce: the
\* call raises, the content has no '{', json.loads raises on the content and
\* on its repair, json.loads returns a value, json.loads returns a value
\* only for the repaired content
LlmResponses(values) ==
    {[kind |-> "raise"], [kind |-> "no_json"], [kind |-> "bad_json"]}
    \cup {[kind |-> k, value |-> v] : k \in {"json", "repaired"}, v \in values}

\* entry of _tracked_generate_meal_plan, up to the first generator call
GenerateMealPlanCall ==
    /\ Callable
    /\ \E rs \in HandlerRestrictions : restrictions' = rs
    /\ op' = "generate_meal_plan"
    /\ pc' = "await_llm"
    /\ meal_plan' = None
    /\ attempt' = 0
    /\ response' = NoResponse
    /\ evaluation_scores' = NoResult
    /\ store' = << >>
    /\ result' = NoResult
    /\ recipe' = [recipeName |-> Str("Bare")]
    /\ UNCHANGED calls
    /\ UNCHANGED <<pos, all_violations, meals_checked, meals_compliant, text,
                   meal_ingredients, shopping_items, shopping_list, precheck>>

\* one pass of the retry loop: the awaited generator call completes and its
\* content is parsed
GenerateLlmResponds ==
    /\ op = "generate_meal_plan"
    /\ pc = "await_llm"
    /\ \E r \in LlmResponses({[days |-> Chunk(meals, 2)] :
                                meals \in SeqsUpTo(GeneratedMeals, MaxMeals)}) :
          /\ response' = r
          /\ attempt' = attempt + 1
          /\ IF r.kind = "raise"
             THEN /\ pc' = "raised"
                  /\ result' = [raised |-> TRUE, error |-> "Exception"]
                  /\ UNCHANGED meal_plan
             ELSE IF r.kind \in {"json", "repaired"}
             THEN \* break
                  /\ pc' = "evaluate"
                  /\ meal_plan' = r.value
                  /\ UNCHANGED result
             ELSE IF attempt + 1 < GenerationAttempts
             THEN \* continue
                  /\ pc' = "await_llm"
                  /\ UNCHANGED <<meal_plan, result>>
             ELSE \* meal_plan is None
                  /\ pc' = "raised"
                  /\ result' = [raised |-> TRUE, error |-> "ValueError"]
                  /\ UNCHANGED meal_plan
    /\ UNCHANGED calls
    /\ UNCHANGED <<op, recipe, restrictions, pos, all_violations,
                   meals_checked, meals_compliant, text, meal_ingredients,
                   shopping_items, shopping_list, precheck, evaluation_scores,
                   store>>

\* the three evaluations of the parsed plan and evaluation_scores
RunEvaluations ==
    /\ op = "generate_meal_plan"
    /\ pc = "evaluate"
    /\ LET compliance_result ==
               check_meal_plan_compliance(meal_plan, restrictions)
           variety_result == evaluate_meal_variety(meal_plan)
           nutrition_result == evaluate_nutrition(meal_plan)
       IN  IF compliance_result.raised \/ variety_result.raised
           THEN /\ pc' = "raised"
                /\ result' = IF compliance_result.raised
                             THEN compliance_result ELSE variety_result
                /\ UNCHANGED evaluation_scores
           ELSE /\ pc' = "persist"
                /\ evaluation_scores' =
                      EvaluationScores(compliance_result, variety_result,
                                       nutrition_result)
                /\ UNCHANGED result
    /\ UNCHANGED calls
    /\ UNCHANGED <<op, recipe, restrictions, meal_plan, pos, all_violations,
                   meals_checked, meals_compliant, text, meal_ingredients,
                   shopping_items, shopping_list, precheck, response, attempt,
                   store>>

\* save_meal_plan, then save_evaluation_result, then return; written of the
\* two records are those before the first write that raises
PersistMealPlan ==
    /\ op = "generate_meal_plan"
    /\ pc = "persist"
    /\ \E written \in 0..2 :
          /\ store' = store \o SubSeq(
                 << [kind |-> "meal_plan", days |-> DaysOf(meal_plan),
                     evaluationScores |-> evaluation_scores],
                    [kind |-> "evaluation",
                     operation_type |-> "meal_generation",
                     scores |-> evaluation_scores,
                     passed |-> evaluation_scores.passed] >>, 1, written)
          /\ pc' = IF written = 2 THEN "returned" ELSE "raised"
          /\ result' = IF written = 2
                       THEN [raised |-> FALSE, meal_plan |-> meal_plan,
                             evaluation_scores |-> evaluation_scores]
                       ELSE [raised |-> TRUE, error |-> "Exception"]
    /\ UNCHANGED calls
    /\ UNCHANGED <<op, recipe, restrictions, meal_plan, pos, all_violations,
                   meals_checked, meals_compliant, text, meal_ingredients,
                   shopping_items, shopping_list, precheck, response, attempt,
                   evaluation_scores>>

\* what regenerate_meal returns from its except clause
RegenerateFailed == [raised |-> FALSE, success |-> FALSE]

\* entry of regenerate_meal, up to the first generator call; the plan may be
\* missing or the day index out of range
RegenerateMealCall ==
    /\ Callable
    /\ \E rs \in HandlerRestrictions : restrictions' = rs
    /\ op' = "regenerate_meal"
    /\ \E found \in BOOLEAN :
          /\ pc' = IF found THEN "await_llm" ELSE "returned"
          /\ result' = IF found THEN NoResult ELSE RegenerateFailed
    /\ meal_plan' = None
    /\ attempt' = 0
    /\ response' = NoResponse
    /\ evaluation_scores' = NoResult
    /\ store' = << >>
    /\ recipe' = [recipeName |-> Str("Bare")]
    /\ UNCHANGED calls
    /\ UNCHANGED <<pos, all_violations, meals_checked, meals_compliant, text,
                   meal_ingredients, shopping_items, shopping_list, precheck>>

\* a second attempt that keeps the evaluation of the first
FirstCompliance(new_meal, retry) ==
    IF retry THEN evaluation_scores
    ELSE evaluate_dietary_compliance(new_meal, restrictions)

\* compliance = await evaluate_dietary_compliance(new_meal, restrictions), at
\* the first attempt and at the second
MealCompliance(new_meal, retry) ==
    evaluate_dietary_compliance(new_meal, restrictions)

\* the parse of a response and the compliance evaluation of the parsed meal;
\* retry tells the first attempt from the second
MealParsedAndEvaluated(r, retry) ==
    /\ response' = r
    /\ attempt' = attempt + 1
    /\ IF r.kind # "json"
       THEN \* the call, the search for '{' or json.loads raised
            /\ pc' = "returned"
            /\ result' = RegenerateFailed
            /\ UNCHANGED <<recipe, evaluation_scores>>
       ELSE LET compliance == MealCompliance(r.value, retry)
            IN  /\ recipe' = r.value
                /\ IF compliance.raised
                   THEN /\ pc' = "returned"
                        /\ result' = RegenerateFailed
                        /\ UNCHANGED evaluation_scores
                   ELSE /\ evaluation_scores' = compliance
                        /\ pc' = IF compliance.passed \/ retry
                                 THEN "persist" ELSE "await_retry"
                        /\ UNCHANGED result
    /\ UNCHANGED calls
    /\ UNCHANGED <<op, restrictions, meal_plan, pos, all_violations,
                   meals_checked, meals_compliant, text, meal_ingredients,
                   shopping_items, shopping_list, precheck, store>>

\* the first generator call completes
RegenerateLlmResponds ==
    /\ op = "regenerate_meal"
    /\ pc = "await_llm"
    /\ \E r \in LlmResponses(GeneratedMeals) : MealParsedAndEvaluated(r, FALSE)

\* the generator call made after a meal that failed compliance completes
RegenerateRetryResponds ==
    /\ op = "regenerate_meal"
    /\ pc = "await_retry"
    /\ \E r \in LlmResponses(GeneratedMeals) : MealParsedAndEvaluated(r, TRUE)

\* update_meal_in_plan, then save_evaluation_result, then return; a write
\* that raises is caught by the except clause
PersistMeal ==
    /\ op = "regenerate_meal"
    /\ pc = "persist"
    /\ \E written \in 0..2 :
          /\ store' = store \o SubSeq(
                 << [kind |-> "meal", new_meal |-> recipe],
                    [kind |-> "evaluation",
                     operation_type |-> "meal_regeneration",
                     scores |-> [dietaryCompliance |->
                                    evaluation_scores.score],
                     passed |-> evaluation_scores.passed] >>, 1, written)
          /\ result' = IF written = 2
                       THEN [raised |-> FALSE, success |-> TRUE,
                             meal |-> recipe,
                             evaluation |->
                                 [dietaryCompliance |->
                                      evaluation_scores.score,
                                  passed |-> evaluation_scores.passed,
                                  violations |->
                                      evaluation_scores.violations]]
                       ELSE RegenerateFailed
    /\ pc' = "returned"
    /\ UNCHANGED calls
    /\ UNCHANGED <<op, recipe, restrictions, meal_plan, pos, all_violations,
                   meals_checked, meals_compliant, text, meal_ingredients,
                   shopping_items, shopping_list, precheck, response, attempt,
                   evaluation_scores>>

NextHandlers ==
    \/ GenerateMealPlanCall
    \/ GenerateLlmResponds
    \/ RunEvaluations
    \/ PersistMealPlan
    \/ RegenerateMealCall
    \/ RegenerateLlmResponds
    \/ RegenerateRetryResponds
    \/ PersistMeal

SpecHandlers == Init /\ [][NextHandlers]_vars

(***************************************************************************)
(* Concurrent calls of the core functions on one plan.  The plan is one    *)
(* object that every thread holds a reference to; a thread reads it when   *)
(* its code does.  aggregate_ingredients takes a step per ingredient       *)
(* record.  A number is copied when it is stored; a list is stored as a    *)
(* reference to the list object of the plan, and += on a list extends      *)
(* that object in place.  The other functions read recipe names, cuisines, *)
(* meal types, ingredient names and units only, which nothing writes, so   *)
(* each of their calls is one step.                                        *)
(***************************************************************************)
Threads == {1, 2}

\* ing.get('amount') or 0
AmountOrZero(ing) ==
    LET amount == Get(ing, "amount", None)
    IN  IF amount.tag = "list"
        THEN (IF amount.items = << >> THEN Num(0) ELSE amount)
        ELSE Or(amount, Num(0))

\* the plan after list.__iadd__ on the amount of its e-th ingredient record,
\* a JSON array ([tag |-> "list", items |-> ...])
ExtendedAt(plan, e, extra) ==
    LET days == DaysOf(plan)
        \* the records the loops visit before meal m of day d
        EntriesBefore(d, m) ==
            Len(FlattenEntries(
                    FlattenMeals(SubSeq(days, 1, d - 1), 1), 1))
            + Len(FlattenEntries(
                      SubSeq(Get(days[d], "meals", << >>), 1, m - 1), 1))
        NewIngredients(ings, base) ==
            [k \in 1..Len(ings) |->
                IF base + k = e
                THEN [ings[k] EXCEPT !.amount.items = @ \o extra]
                ELSE ings[k]]
        NewMeals(meals, d) ==
            [m \in 1..Len(meals) |->
                IF "ingredients" \in DOMAIN meals[m]
                THEN [meals[m] EXCEPT !.ingredients =
                         NewIngredients(@, EntriesBefore(d, m))]
                ELSE meals[m]]
    IN  [plan EXCEPT !.days =
            [d \in 1..Len(days) |->
                IF "meals" \in DOMAIN days[d]
                THEN [days[d] EXCEPT !.meals = NewMeals(@, d)]
                ELSE days[d]]]

\* the loop state after the dict took one ingredient record: is_list tells
\* that the amount of the record is a list, taken is the dict after the
\* record was merged with its amount read as 0
Merged(run, is_list, taken) ==
    LET at == IF Len(taken) > Len(run.aggregated) THEN 0
              ELSE CHOOSE i \in 1..Len(taken) : taken[i] # run.aggregated[i]
    IN  IF at = 0
        THEN [run EXCEPT !.e = @ + 1,
                         !.aggregated = taken,
                         !.alias = Append(@, IF is_list THEN run.e ELSE 0)]
        ELSE IF (run.alias[at] # 0) # is_list
        THEN \* int += list, list += int
             [run EXCEPT !.raised = TRUE, !.error = "TypeError"]
        ELSE IF is_list
        THEN [run EXCEPT
                 !.e = @ + 1,
                 !.aggregated = taken,
                 !.plan = ExtendedAt(@, run.alias[at],
                              PlanEntries(@)[run.e].ing.amount.items)]
        ELSE [run EXCEPT !.e = @ + 1, !.aggregated = taken]

\* the body of the innermost loop of aggregate_ingredients for record run.e
\* of the shared plan; run.alias[i] is the record whose list object the
\* amount of the i-th dict entry is, 0 when that amount is a number
AggregateShared(run) ==
    LET entry == PlanEntries(run.plan)[run.e]
    IN  IF Get(entry.ing, "name", Str("")).tag # "str"
        THEN [run EXCEPT !.raised = TRUE, !.error = "AttributeError"]
        ELSE IF AmountOrZero(entry.ing).tag = "list"
        THEN Merged(run, TRUE,
                    AggregateOne(run.aggregated, entry.recipe_name,
                                 [entry.ing EXCEPT !.amount = Num(0)]))
        ELSE Merged(run, FALSE,
                    AggregateOne(run.aggregated, entry.recipe_name,
                                 entry.ing))

\* the list aggregate_ingredients returns, the amounts as they are when it
\* returns
AggregateResult(run) ==
    IF run.raised THEN [raised |-> TRUE, error |-> run.error]
    ELSE [raised |-> FALSE,
          items |-> StableSort(WithIds(
              [i \in 1..Len(run.aggregated) |->
                  [run.aggregated[i] EXCEPT !.item.amount =
                      IF run.alias[i] # 0
                      THEN PlanEntries(run.plan)[run.alias[i]].ing.amount
                      ELSE Num(@)]]), 1, << >>)]

\* the loop state on entry to aggregate_ingredients(plan)
AggregateEntered(plan) ==
    [plan |-> plan, e |-> 1, aggregated |-> << >>, alias |-> << >>,
     raised |-> FALSE, error |-> ""]

RECURSIVE AggregateAlone(_)
\* the loop state at the end of aggregate_ingredients run from state run on
\* with no other thread writing
AggregateAlone(run) ==
    IF run.raised \/ run.e > Len(PlanEntries(run.plan)) THEN run
    ELSE AggregateAlone(AggregateShared(run))

\* plans of meals whose egg amounts are numbers and of meals whose egg
\* amounts are arrays
SharedPlanUniverse ==
    LET Eggs(name, amount) ==
            [name |-> Str(name), amount |-> amount, unit |-> Str("large")]
        meal_master ==
            << [recipeName |-> Str("Omelette"), cuisine |-> Str("French"),
                ingredients |-> << Eggs("eggs", Num(2)) >>],
               [recipeName |-> Str("Cake"),
                ingredients |-> << Eggs("Eggs", Num(3)) >>],
               [recipeName |-> Str("Frittata"), cuisine |-> Str("Italian"),
                ingredients |->
                    << Eggs("eggs", [tag |-> "list", items |-> << 2 >>]) >>],
               [recipeName |-> Str("Quiche"),
                ingredients |->
                    << Eggs("Eggs", [tag |-> "list", items |-> << 3 >>]) >>] >>
    IN  {[days |-> << [dayName |-> Str("Monday"), meals |-> ms] >>] :
            ms \in SubSeqsUpTo(meal_master, MaxMeals)}

\* the caller builds a plan and starts the threads
SharePlan ==
    /\ Callable
    /\ op' = "concurrent"
    /\ pc' = "running"
    /\ \E p \in SharedPlanUniverse :
          /\ meal_plan' = p
          /\ calls' = [plan |-> p,
                       thread |-> [t \in Threads |->
                                      [fn |-> "none", pc |-> "idle",
                                       result |-> NoResult]]]
    /\ DietaryIdle
    /\ UNCHANGED <<text, meal_ingredients, shopping_items, shopping_list,
                   precheck, response, attempt, evaluation_scores, store,
                   result>>

\* the frame of a step of thread t
ThreadStep(t, after) ==
    /\ calls' = [calls EXCEPT !.thread[t] = after]
    /\ UNCHANGED <<op, pc, recipe, restrictions, pos, all_violations,
                   meals_checked, meals_compliant, text, meal_ingredients,
                   shopping_items, shopping_list, precheck, response, attempt,
                   evaluation_scores, store, result>>

\* thread t enters aggregate_ingredients(meal_plan)
AggregateBegins(t) ==
    /\ op = "concurrent"
    /\ calls.thread[t].pc = "idle"
    /\ ThreadStep(t, [fn |-> "aggregate_ingredients", pc |-> "loop",
                      run |-> AggregateEntered(meal_plan),
                      result |-> NoResult])
    /\ UNCHANGED meal_plan

\* thread t runs the loop body for one ingredient record of the plan as it
\* is now
AggregateStep(t) ==
    /\ op = "concurrent"
    /\ calls.thread[t].pc = "loop"
    /\ calls.thread[t].run.e <= Len(PlanEntries(meal_plan))
    /\ \E after \in {AggregateShared([calls.thread[t].run
                                         EXCEPT !.plan = meal_plan])} :
          /\ meal_plan' = after.plan
          /\ ThreadStep(t, [calls.thread[t] EXCEPT
                               !.run = after,
                               !.pc = IF after.raised THEN "raised" ELSE @,
                               !.result = IF after.raised
                                          THEN AggregateResult(after) ELSE @])

\* thread t leaves the loops, numbers and sorts the items and returns
AggregateReturns(t) ==
    /\ op = "concurrent"
    /\ calls.thread[t].pc = "loop"
    /\ calls.thread[t].run.e > Len(PlanEntries(meal_plan))
    /\ ThreadStep(t, [calls.thread[t] EXCEPT
                         !.pc = "returned",
                         !.result = AggregateResult(
                             [calls.thread[t].run
                                 EXCEPT !.plan = meal_plan])])
    /\ UNCHANGED meal_plan

\* what a one-step function returns for the plan: evaluate_meal_variety for
\* the plan; deterministic_completeness_check for its ingredient records
\* against those of its first meal; the normalizers and infer_category for
\* the name and unit of its first ingredient record
ReadOnlyResult(fn, plan) ==
    LET ings == [i \in 1..Len(PlanEntries(plan)) |-> PlanEntries(plan)[i].ing]
        first == SubSeq(ings, 1, Min({1, Len(ings)}))
    IN  IF fn = "evaluate_meal_variety" THEN evaluate_meal_variety(plan)
        ELSE IF fn = "deterministic_completeness_check"
        THEN deterministic_completeness_check(
                 ings, first,
                 CHOOSE l \in Listings(MissingNames(ings, first)) : TRUE)
        ELSE [raised |-> FALSE,
              names |-> [i \in 1..Len(first) |->
                  << normalize_ingredient_name(first[i].name.s),
                     normalize_unit(first[i].unit.s),
                     infer_category(first[i].name.s) >>]]

\* thread t calls one of the functions that only read
ReadOnlyCall(t) ==
    /\ op = "concurrent"
    /\ calls.thread[t].pc = "idle"
    /\ \E fn \in {"evaluate_meal_variety", "deterministic_completeness_check",
                  "normalize"} :
          \E res \in {ReadOnlyResult(fn, meal_plan)} :
             ThreadStep(t, [fn |-> fn,
                            pc |-> IF res.raised THEN "raised"
                                   ELSE "returned",
                            result |-> res])
    /\ UNCHANGED meal_plan

NextConcurrent ==
    \/ SharePlan
    \/ \E t \in Threads : AggregateBegins(t)
    \/ \E t \in Threads : AggregateStep(t)
    \/ \E t \in Threads : AggregateReturns(t)
    \/ \E t \in Threads : ReadOnlyCall(t)

SpecConcurrent == Init /\ [][NextConcurrent]_vars

(***************************************************************************)
(* Properties of the dietary compliance checker.                           *)
(***************************************************************************)
EvalCalled == op = "evaluate"

EvalReturned == op = "evaluate" /\ pc = "returned"

PlanReturned == op = "check_plan" /\ pc = "returned"

Ingredients == Get(recipe, "ingredients", << >>)

\* lower-cased name of the j-th ingredient of the recipe
NameOf(j) == Lower(IngredientNameValue(Ingredients[j]).s)

\* the restriction key as the documentation describes it, character by character
NormalizedKey(r) ==
    LET ch(i) == IF Char(r, i) \in {"_", " "} THEN "-" ELSE LowerChar(Char(r, i))
        RECURSIVE build(_)
        build(i) == IF i > Len(r) THEN "" ELSE ch(i) \o build(i + 1)
    IN  build(1)

BannedKeywords(r) ==
    IF NormalizedKey(r) \in DOMAIN ALLERGEN_KEYWORDS
    THEN ALLERGEN_KEYWORDS[NormalizedKey(r)] ELSE << >>

SafeCompounds(r) ==
    IF NormalizedKey(r) \in DOMAIN SAFE_COMPOUNDS
    THEN Range(SAFE_COMPOUNDS[NormalizedKey(r)]) ELSE {}

HasSafeCompound(r, n) == \E c \in SafeCompounds(r) : Contains(c, n)

HasBannedKeyword(r, n) ==
    \E k \in 1..Len(BannedKeywords(r)) : Contains(BannedKeywords(r)[k], n)

\* violations of the result recorded for restriction string r and ingredient n
ViolationsFor(r, n) ==
    {v \in 1..Len(result.violations) :
        /\ result.violations[v].restriction = r
        /\ result.violations[v].ingredient = n}

\* C1: allowlist precedence - an ingredient whose lower-cased name contains a
\* safe compound of restriction R has no violation recorded under R, even
\* when the name also contains a banned keyword of R.
C1_AllowlistPrecedence ==
    EvalReturned =>
        \A i \in 1..Len(restrictions), j \in 1..Len(Ingredients) :
            HasSafeCompound(restrictions[i], NameOf(j))
                => ViolationsFor(restrictions[i], NameOf(j)) = {}

C1_Witness ==
    /\ EvalReturned
    /\ restrictions = << "dairy-free" >>
    /\ Ingredients = << [name |-> Str("unsweetened almond milk")] >>
    /\ HasBannedKeyword("dairy-free", NameOf(1))
    /\ result.violations = << >>
    /\ result.score = 1

\* (restriction entry, ingredient entry) pairs that must yield a violation
FlaggedPairs ==
    {p \in (1..Len(restrictions)) \X (1..Len(Ingredients)) :
        /\ ~HasSafeCompound(restrictions[p[1]], NameOf(p[2]))
        /\ HasBannedKeyword(restrictions[p[1]], NameOf(p[2]))}

\* the violation expected for a flagged pair: first keyword in table order
ExpectedViolation(p) ==
    LET r == restrictions[p[1]]
        n == NameOf(p[2])
        kws == BannedKeywords(r)
        first == CHOOSE k \in 1..Len(kws) :
                    /\ Contains(kws[k], n)
                    /\ \A h \in 1..(k - 1) : ~Contains(kws[h], n)
    IN  [restriction |-> r, ingredient |-> n, matchedKeyword |-> kws[first],
         detectionMethod |-> "keyword"]

\* C2: no missed keyword - the returned violations are, as a multiset, one
\* violation per (restriction entry, ingredient entry) pair whose name has no
\* safe compound of that restriction and contains one of its banned keywords,
\* naming the first matching keyword in table order; nothing else is reported.
C2_NoMissedKeyword ==
    (EvalReturned /\ restrictions # << >>) =>
        LET flagged == FlaggedPairs
            expected == [p \in flagged |-> ExpectedViolation(p)]
            got == result.violations
        IN  /\ Len(got) = Cardinality(flagged)
            /\ \A v \in 1..Len(got) : \E p \in flagged : got[v] = expected[p]
            /\ \A p \in flagged :
                  Cardinality({v \in 1..Len(got) : got[v] = expected[p]})
                  = Cardinality({q \in flagged : expected[q] = expected[p]})

C2_Witness ==
    /\ EvalReturned
    /\ restrictions = << "dairy-free", "nut-free" >>
    /\ Ingredients = << [name |-> Str("unsweetened almond milk")],
                        [name |-> Str("Buttermilk Bread")] >>
    /\ result.violations =
          << [restriction |-> "dairy-free", ingredient |-> "buttermilk bread",
              matchedKeyword |-> "milk", detectionMethod |-> "keyword"],
             [restriction |-> "nut-free",
              ingredient |-> "unsweetened almond milk",
              matchedKeyword |-> "almond", detectionMethod |-> "keyword"] >>

PlanMeals == MealPositions(DaysOf(meal_plan), 1)

\* meals of the plan that the single-recipe check passes
CompliantMeals ==
    {k \in 1..Len(PlanMeals) :
        LET res == evaluate_dietary_compliance(MealAt(meal_plan, PlanMeals[k]),
                                               restrictions)
        IN  ~res.raised /\ res.passed}

\* C3: zero-tolerance plan compliance - the returned summary counts every
\* meal of every day, complianceRate is mealsCompliant / mealsChecked (1.0
\* for a plan without meals), and score is 1.0 with passed true iff every
\* meal is compliant, 0.0 with passed false otherwise.
C3_ZeroTolerance ==
    PlanReturned =>
        /\ result.mealsChecked = Len(PlanMeals)
        /\ result.mealsCompliant = Cardinality(CompliantMeals)
        /\ IF Len(PlanMeals) = 0
           THEN RateIs(result.complianceRate, 1, 1)
           ELSE RateIs(result.complianceRate, Cardinality(CompliantMeals),
                       Len(PlanMeals))
        /\ result.score \in {0, 1}
        /\ (result.score = 1) <=> (Cardinality(CompliantMeals) = Len(PlanMeals))
        /\ result.passed <=> (result.score = 1)

C3_Witness ==
    /\ PlanReturned
    /\ Len(PlanMeals) = 2
    /\ Cardinality(CompliantMeals) = 1
    /\ result.score = 0
    /\ ~result.passed
    /\ RateIs(result.complianceRate, 1, 2)

\* C4: empty-restriction pass-through - with an empty restriction list the
\* call returns score 1.0, passed true and no violations for every recipe.
C4_EmptyRestrictions ==
    (EvalCalled /\ restrictions = << >>) =>
        /\ pc = "returned"
        /\ result.score = 1
        /\ result.passed
        /\ result.violations = << >>

C4_Witness ==
    /\ EvalReturned
    /\ restrictions = << >>
    /\ Ingredients = << [name |-> Str("Buttermilk Bread")], [name |-> None] >>
    /\ result.passed
    /\ result.score = 1
    /\ result.violations = << >>

\* restriction entries whose normalized key has a non-empty keyword list
ActiveRestrictions == SelectSeq(restrictions, LAMBDA r : BannedKeywords(r) # << >>)

\* lower-cased ingredient names flagged under restriction string r
FlaggedUnder(r) ==
    {result.violations[v].ingredient :
        v \in {w \in 1..Len(result.violations) :
                  result.violations[w].restriction = r}}

\* C5: fail-open - a restriction whose normalized key is not in the keyword
\* table, or whose keyword list is empty, yields no violation and leaves the
\* violations of the other restrictions as they are; spellings with the same
\* normalized key flag exactly the same ingredients.
C5_FailOpen ==
    EvalReturned =>
        /\ \A i \in 1..Len(restrictions) :
              BannedKeywords(restrictions[i]) = << >>
                  => FlaggedUnder(restrictions[i]) = {}
        /\ result.violations =
              evaluate_dietary_compliance(recipe, ActiveRestrictions).violations
        /\ \A i, j \in 1..Len(restrictions) :
              NormalizedKey(restrictions[i]) = NormalizedKey(restrictions[j])
                  => FlaggedUnder(restrictions[i]) = FlaggedUnder(restrictions[j])

C5_Witness ==
    /\ EvalReturned
    /\ restrictions = << "keto", "gluten_free" >>
    /\ Ingredients = << [name |-> Str("Buttermilk Bread")],
                        [name |-> Str("soy sauce")] >>
    /\ FlaggedUnder("keto") = {}
    /\ FlaggedUnder("gluten_free") = {"soy sauce", "buttermilk bread"}

\* C6: the single-recipe verdict is binary - score 1.0 and passed true exactly
\* when the violations list is empty, score 0.0 and passed false otherwise,
\* and confidence is 1.0 in every result.
C6_BinaryVerdict ==
    EvalReturned =>
        /\ result.confidence = 1
        /\ IF result.violations = << >>
           THEN result.score = 1 /\ result.passed
           ELSE result.score = 0 /\ ~result.passed

C6_Witness ==
    /\ EvalReturned
    /\ Len(result.violations) = 1
    /\ result.score = 0
    /\ ~result.passed
    /\ result.confidence = 1

\* the recipe with every absent or null ingredient name replaced by ''
WithEmptyNames(r) ==
    IF "ingredients" \in DOMAIN r
    THEN [r EXCEPT !.ingredients =
            [j \in 1..Len(r.ingredients) |->
                IF IngredientNameValue(r.ingredients[j]).tag = "str"
                THEN r.ingredients[j]
                ELSE [name |-> Str("")]]]
    ELSE r

\* C7: a malformed ingredient never blocks the check - with a name absent or
\* null the call does not raise, and the result reports the violations of the
\* recipe in which the malformed names are read as ''.
C7_MalformedNeverBlocks ==
    /\ pc # "raised"
    /\ EvalReturned =>
          result.violations =
              evaluate_dietary_compliance(WithEmptyNames(recipe),
                                          restrictions).violations

(***************************************************************************)
(* Properties of the shopping-list aggregator and the normalizers.         *)
(***************************************************************************)
AggReturned == op = "aggregate_ingredients" /\ pc = "returned"

\* the aggregation key of an ingredient entry of the plan
EntryKey(e) ==
    normalize_ingredient_name(Get(e.ing, "name", Str("")).s)
    \o "|" \o normalize_unit(Or(Get(e.ing, "unit", None), Str("")).s)

EntryAmount(e) == Or(Get(e.ing, "amount", None), Num(0)).n

\* the aggregation key of a returned shopping item
ItemKey(item) ==
    normalize_ingredient_name(item.name) \o "|" \o normalize_unit(item.unit)

RECURSIVE SumOver(_, _)
\* sum of f over the finite index set S
SumOver(f, S) ==
    IF S = {} THEN 0
    ELSE LET x == CHOOSE y \in S : TRUE IN f[x] + SumOver(f, S \ {x})

\* C8: aggregation merge - the result has exactly one item per distinct
\* aggregation key of the plan; the item of a key carries the arithmetic sum
\* of the amounts of all entries with that key and, as fromRecipes, the set
\* of their recipe names; entries with different keys are never merged.
C8_AggregationMerge ==
    AggReturned =>
        LET entries == PlanEntries(meal_plan)
            keyOf == [i \in 1..Len(entries) |-> EntryKey(entries[i])]
            amountOf == [i \in 1..Len(entries) |-> EntryAmount(entries[i])]
            keys == Range(keyOf)
            items == result.items
        IN  /\ Len(items) = Cardinality(keys)
            /\ \A k \in keys :
                  LET with == {i \in 1..Len(entries) : keyOf[i] = k}
                  IN  \E j \in 1..Len(items) :
                         /\ ItemKey(items[j]) = k
                         /\ items[j].amount = SumOver(amountOf, with)
                         /\ items[j].fromRecipes =
                               {entries[i].recipe_name : i \in with}

C8_Witness ==
    /\ AggReturned
    /\ Len(DaysOf(meal_plan)) = 1
    /\ \E j \in 1..Len(result.items) :
          /\ result.items[j].name = "eggs"
          /\ result.items[j].amount = 5
          /\ result.items[j].unit = "large"
          /\ result.items[j].fromRecipes = {Str("Omelette"), Str("Cake")}
    /\ \E a, b \in 1..Len(result.items) :
          /\ result.items[a].name = "flour" /\ result.items[a].unit = "cup"
          /\ result.items[a].amount = 1
          /\ result.items[b].name = "flour" /\ result.items[b].unit = "gram"
          /\ result.items[b].amount = 200

NameReturned == op = "normalize_ingredient_name" /\ pc = "returned"

\* C9: modifier-insensitive names - when the argument is a modifier of the
\* fixed list, in any letter case, followed by a non-empty name x, the result
\* equals normalize_ingredient_name(x).
C9_ModifierInsensitive ==
    NameReturned =>
        \A i \in 1..Len(modifiers_to_remove) :
            LET m == modifiers_to_remove[i]
            IN  (Len(text) > Len(m) /\ Lower(SubSeq(text, 1, Len(m))) = m)
                    => result.value =
                          normalize_ingredient_name(
                              SubSeq(text, Len(m) + 1, Len(text)))

UnitReturned == op = "normalize_unit" /\ pc = "returned"

\* normalize_unit as documented: lower-case, trim, drop one trailing 's',
\* look the singular up, else look the unstripped string up, else the singular
DocumentedUnit(u) ==
    LET unit == Strip(Lower(u))
        singular == IF unit # "" /\ Char(unit, Len(unit)) = "s"
                    THEN SubSeq(unit, 1, Len(unit) - 1) ELSE unit
    IN  IF singular \in DOMAIN unit_map THEN unit_map[singular]
        ELSE IF unit \in DOMAIN unit_map THEN unit_map[unit]
        ELSE singular

\* C10: normalize_unit matches its documentation for every string - a single
\* trailing 's' is removed before the abbreviation table is consulted.
C10_UnitAsDocumented ==
    UnitReturned => result.value = DocumentedUnit(text)

\* C11: normalize_unit is idempotent - normalizing a returned unit again
\* gives the same unit, for every argument (empty, blanks inside, several
\* trailing 's').
C11_UnitIdempotent ==
    UnitReturned => normalize_unit(result.value) = result.value

\* C12: normalize_ingredient_name is idempotent - normalizing a returned name
\* again gives the same name, for every argument.
C12_NameIdempotent ==
    NameReturned => normalize_ingredient_name(result.value) = result.value

\* C13: ids follow output position - the item at 0-based position i of the
\* returned list has id "item-i".
C13_IdsFollowPosition ==
    AggReturned =>
        \A i \in 1..Len(result.items) :
            result.items[i].id = "item-" \o ToString(i - 1)

\* the documented category rank; a category outside the list ranks last
DocumentedRank(c) ==
    CASE c = "produce" -> 0
      [] c = "dairy" -> 1
      [] c = "meat" -> 2
      [] c = "pantry" -> 3
      [] c = "spices" -> 4
      [] c = "frozen" -> 5
      [] c = "other" -> 6
      [] OTHER -> 7

\* C14: the returned list is sorted - by category rank produce < dairy < meat
\* < pantry < spices < frozen < other < any other category, and within one
\* category by display name ascending.
C14_Sorted ==
    AggReturned =>
        \A i, j \in 1..Len(result.items) :
            i < j =>
                LET a == result.items[i]
                    b == result.items[j]
                IN  /\ DocumentedRank(a.category) <= DocumentedRank(b.category)
                    /\ a.category = b.category => ~StrLess(b.name, a.name)

\* a result whose order differs from the insertion order, with two items of
\* one category in name order and an item of an unlisted category at the end
C14_Witness ==
    /\ AggReturned
    /\ Len(result.items) >= 4
    /\ result.items[1].id # "item-0"
    /\ result.items[1].name = "Cheddar" /\ result.items[1].category = "dairy"
    /\ result.items[2].name = "butter" /\ result.items[2].category = "dairy"
    /\ result.items[Len(result.items)].category = "herbs"
    /\ \E i \in 1..Len(result.items) : result.items[i].category = "other"

\* C15: aggregate_ingredients has no error path - whatever fields of the
\* ingredient records are absent or null, the call returns a list.
C15_NoErrorPath ==
    op = "aggregate_ingredients" => pc = "returned" /\ ~result.raised

CategoryReturned == op = "infer_category" /\ pc = "returned"

\* the categories with their keyword lists, in the documented priority order
CategoryPriority ==
    << << "produce", produce_keywords >>, << "dairy", dairy_keywords >>,
       << "meat", meat_keywords >>, << "spices", spice_keywords >>,
       << "frozen", frozen_keywords >>, << "pantry", pantry_keywords >> >>

\* the positions in the priority order of the categories that have a keyword
\* occurring in the lower-cased name
MatchingCategories(name) ==
    {i \in 1..Len(CategoryPriority) :
        \E k \in 1..Len(CategoryPriority[i][2]) :
            Contains(CategoryPriority[i][2][k], Lower(name))}

\* C16: infer_category returns the first category, in the order produce,
\* dairy, meat, spices, frozen, pantry, that has a keyword occurring in the
\* lower-cased name, and "other" exactly when no category has one.
C16_FirstCategoryWins ==
    CategoryReturned =>
        LET hits == MatchingCategories(text)
        IN  /\ hits # {} => result.value = CategoryPriority[Min(hits)][1]
            /\ result.value = "other" <=> hits = {}

\* a name with a spice keyword and a pantry keyword is put under spices
C16_Witness ==
    /\ CategoryReturned
    /\ text = "chili sauce"
    /\ MatchingCategories(text) = {4, 6}
    /\ result.value = "spices"

(***************************************************************************)
(* Properties of the variety scorer.  Returned scores are in thousandths.  *)
(***************************************************************************)
VarietyReturned == op = "evaluate_meal_variety" /\ pc = "returned"

\* the flattened lower-cased recipe-name sequence of a plan
SlotNames(plan) ==
    LET meals == VarietyMeals(plan)
    IN  [m \in 1..Len(meals) |-> Lower(Get(meals[m], "recipeName", Str("")).s)]

\* the positions i at which the name sequence has equal entries at i and i+1
AdjacentRepeats(names) ==
    {i \in 1..(Len(names) - 1) : names[i] = names[i + 1]}

\* the documented score for the counts the call reports and k adjacent repeats
DocumentedScore(d, k) ==
    FracMax(Frac(0, 1),
        FracMin(Frac(1, 1),
            FracSub(
                FracAdd(
                    FracAdd(FracMul(Frac(4, 10),
                                    Frac(d.uniqueRecipes, d.totalRecipes)),
                            FracMul(Frac(3, 10),
                                    FracMin(Frac(d.uniqueCuisines, 3), Frac(1, 1)))),
                    FracMul(Frac(3, 10),
                            FracMin(Frac(d.uniqueProteins, 3), Frac(1, 1)))),
                Frac(k, 10))))

\* C17: variety score - the returned score is max(0, min(1, 0.4 *
\* recipeUniqueness + 0.3 * cuisineDiversity + 0.3 * proteinDiversity -
\* repetitionPenalty)) with the penalty 0.1 per adjacent repeat of the
\* flattened name sequence; it lies in [0, 1]; passed holds iff the returned
\* score is at least 0.55.
C17_VarietyScore ==
    VarietyReturned =>
        LET k == Cardinality(AdjacentRepeats(SlotNames(meal_plan)))
        IN  /\ Frac(result.score, 1000) = DocumentedScore(result.deterministic, k)
            /\ result.score \in 0..1000
            /\ result.passed <=> result.score >= 550

\* the cuisines the meals of a plan give, lower-cased
GivenCuisines(plan) ==
    {Lower(meal.cuisine.s) :
        meal \in {x \in Range(VarietyMeals(plan)) : "cuisine" \in DOMAIN x}}

\* the ingredient names of a plan, lower-cased
IngredientNamesOf(plan) ==
    UNION {{Lower(ing.name.s) :
               ing \in {x \in Range(Get(meal, "ingredients", << >>)) :
                           "name" \in DOMAIN x}} :
           meal \in Range(VarietyMeals(plan))}

\* the protein keywords that occur in an ingredient name of the plan
ProteinsNamed(plan) ==
    {PROTEIN_KEYWORDS[k] : k \in {j \in 1..Len(PROTEIN_KEYWORDS) :
        \E n \in IngredientNamesOf(plan) : Contains(PROTEIN_KEYWORDS[j], n)}}

\* the recipe names and the cuisines of a plan as written, letter case kept
WrittenNames(plan) ==
    LET meals == VarietyMeals(plan)
    IN  [m \in 1..Len(meals) |-> Get(meals[m], "recipeName", Str("")).s]

WrittenCuisines(plan) ==
    {meal.cuisine.s :
        meal \in {x \in Range(VarietyMeals(plan)) : "cuisine" \in DOMAIN x}}

\* all recipe names distinct, three cuisines, three protein keywords,
\* names and cuisines compared as written
VariedPlanAsWritten(plan) ==
    /\ Cardinality(Range(WrittenNames(plan))) = Len(WrittenNames(plan))
    /\ Cardinality(WrittenCuisines(plan)) >= 3
    /\ Cardinality(ProteinsNamed(plan)) >= 3

\* the same, names and cuisines compared after lower-casing
VariedPlan(plan) ==
    /\ Cardinality(Range(SlotNames(plan))) = Len(SlotNames(plan))
    /\ Cardinality(GivenCuisines(plan)) >= 3
    /\ Cardinality(ProteinsNamed(plan)) >= 3

WithRecipeName(plan, j, x) ==
    LET at == MealPositions(DaysOf(plan), 1)[j]
    IN  [plan EXCEPT !.days[at[1]].meals[at[2]] =
                         [recipeName |-> Str(x)] @@ @]

\* slot j carries the same name as the slot before it or the slot after it
RepeatAt(names, j) ==
    \/ j > 1 /\ names[j - 1] = names[j]
    \/ j < Len(names) /\ names[j] = names[j + 1]

\* the recipe names tried in place of a repeated one
ReplacementNames == {"Soup", "Curry"}

\* C19: variety penalty - of two plans that differ only in the recipe name of
\* one slot, where one plan has that slot repeat the name of an adjacent slot
\* and the other does not, the plan with the repeat scores at least 0.1 lower,
\* also when the score is clamped.
C19_RepeatCostsTenth ==
    VarietyReturned =>
        \A j \in 1..Len(SlotNames(meal_plan)) : \A x \in ReplacementNames :
            LET other == WithRecipeName(meal_plan, j, x)
            IN  (/\ RepeatAt(SlotNames(meal_plan), j)
                 /\ ~RepeatAt(SlotNames(other), j))
                => evaluate_meal_variety(other).score - result.score >= 100

---------------------------------------------------------------------------
\* Properties of the deterministic completeness pre-check

CompletenessReturned ==
    op = "deterministic_completeness_check" /\ pc = "returned"

\* the normalized names of the records of a list
NormalizedOf(items) ==
    {normalize_ingredient_name(r.name.s) : r \in Range(items)}

\* C20: deterministic pre-check - missing_normalized lists exactly the
\* normalized meal-ingredient names that are not normalized shopping-item
\* names, has_missing holds iff there is such a name (so it is False when
\* every normalized meal-ingredient name is a normalized shopping-item name),
\* and meal_count and shopping_count are the sizes of the two sets.
C20_CompletenessPreCheck ==
    CompletenessReturned =>
        LET wanted == NormalizedOf(meal_ingredients)
            bought == NormalizedOf(shopping_items)
        IN  /\ Range(result.missing_normalized) = wanted \ bought
            /\ Len(result.missing_normalized) = Cardinality(wanted \ bought)
            /\ result.has_missing <=> (wanted \ bought # {})
            /\ (wanted \subseteq bought) => ~result.has_missing
            /\ result.meal_count = Cardinality(wanted)
            /\ result.shopping_count = Cardinality(bought)

\* two ingredients under names that need normalizing, one of them bought
\* under its normalized name
C20_Witness ==
    /\ CompletenessReturned
    /\ Len(meal_ingredients) = 2
    /\ "egg" \notin {r.name.s : r \in Range(meal_ingredients)}
    /\ shopping_items = << [name |-> Str("egg")] >>
    /\ result.has_missing
    /\ result.missing_normalized = << "onion" >>
    /\ result.meal_count = 2
    /\ result.shopping_count = 1

----------------------------------------------------------------------------
\* Further properties of the dietary compliance checker

\* C27: vegan is at least as strict as vegetarian - a recipe that passes
\* for the restriction vegan passes for vegetarian, and no ingredient name
\* is flagged under vegetarian without being flagged under vegan.
C27_VeganAtLeastVegetarian ==
    (EvalReturned /\ restrictions = << "vegan" >>) =>
        LET vegetarian == evaluate_dietary_compliance(recipe,
                                                      << "vegetarian" >>)
        IN  /\ result.passed => vegetarian.passed
            /\ \A v \in Range(vegetarian.violations) :
                   v.ingredient \in FlaggedUnder("vegan")

----------------------------------------------------------------------------
\* Properties of evaluate_shopping_completeness

\* the call returned after the judge answered with a JSON object carrying
\* the three scores
JudgeReported ==
    /\ op = "evaluate_shopping_completeness"
    /\ pc = "returned"
    /\ response.kind = "json"
    /\ Range(required_fields) \subseteq DOMAIN response.fields

\* the missing items the judge reported
ReportedMissing == Get(response.fields, "missing_items", List(<< >>)).items

\* 0.6*completeness_score + 0.3*combination_score + 0.1*precision_score of
\* the reported scores, in thousandths
ReportedBlend ==
    6 * response.fields.completeness_score.hundredths
    + 3 * response.fields.combination_score.hundredths
    + response.fields.precision_score.hundredths

\* C21: completeness decision - with a reported missing item the score is 0
\* and passed is false; otherwise the score is the weighted blend
\* 0.6/0.3/0.1 of the reported scores and passed holds iff that score is at
\* least 0.8; the outcome of the pre-check changes neither.
C21_CompletenessDecision ==
    JudgeReported =>
        /\ ReportedMissing # << >> => result.score = 0 /\ ~result.passed
        /\ ReportedMissing = << >> =>
               /\ result.score = ReportedBlend
               /\ result.passed <=> ReportedBlend >= 800

\* llm.ainvoke has completed, in either way, and the call is over
JudgeAnswered ==
    /\ op = "evaluate_shopping_completeness"
    /\ pc \in {"returned", "raised"}
    /\ response # NoResponse

\* a reported score in hundredths, 0.5 for a score the object lacks
ReportedOrHalf(f) ==
    IF f \in DOMAIN response.fields THEN response.fields[f].hundredths ELSE 50

\* C29: judge failure fails closed - when the judge call raises, answers
\* without a JSON object or answers with JSON that does not parse, the
\* evaluation does not raise and returns score 0.0 and passed False with a
\* non-empty missingItems; and a score the parsed object lacks counts as 0.5.
C29_JudgeFailureFailsClosed ==
    JudgeAnswered =>
        /\ response.kind \in {"raise", "no_json", "bad_json"} =>
               /\ ~result.raised
               /\ result.score = 0
               /\ ~result.passed
               /\ result.missingItems # << >>
        /\ (/\ response.kind = "json"
            /\ \A f \in DOMAIN response.fields : response.fields[f] # None
            /\ ReportedMissing = << >>) =>
               /\ ~result.raised
               /\ result.score = 6 * ReportedOrHalf("completeness_score")
                                 + 3 * ReportedOrHalf("combination_score")
                                 + ReportedOrHalf("precision_score")

\* the judge call raised although the list covers the plan
C29_Witness ==
    /\ JudgeAnswered
    /\ response.kind = "raise"
    /\ ~precheck.has_missing
    /\ pc = "returned"
    /\ result.score = 0
    /\ ~result.passed
    /\ result.missingItems = << "ERROR: Evaluation failed" >>

----------------------------------------------------------------------------
\* Further properties of the variety scorer

\* a call of evaluate_meal_variety on a plan without meals is over
EmptyPlanScored ==
    /\ op = "evaluate_meal_variety"
    /\ pc \in {"returned", "raised"}
    /\ VarietyMeals(meal_plan) = << >>

\* C23: empty plan in the variety scorer - for a plan with zero meals the
\* call raises no division by zero and returns; the total recipe count is
\* taken as 1 and recipeUniqueness is the number of unique recipe names
\* divided by that total.
C23_EmptyPlanVariety ==
    EmptyPlanScored =>
        /\ ~result.raised
        /\ result.deterministic.totalRecipes = 1
        /\ result.deterministic.recipeUniqueness
               * result.deterministic.totalRecipes
           = 1000 * result.deterministic.uniqueRecipes

\* a plan whose only day has no meals
C23_Witness ==
    /\ EmptyPlanScored
    /\ pc = "returned"
    /\ meal_plan = [days |-> << [dayName |-> Str("Sunday")] >>]
    /\ result.deterministic.totalRecipes = 1
    /\ result.deterministic.uniqueRecipes = 0
    /\ result.score = 0

----------------------------------------------------------------------------
\* Further properties of the aggregator

\* the positions of the plan's ingredient entries that bring a new
\* aggregation key, in day, meal, ingredient order
FirstEncounters(entries) ==
    {i \in 1..Len(entries) :
        \A j \in 1..(i - 1) : EntryKey(entries[j]) # EntryKey(entries[i])}

\* C24: id assignment order - the ids are given in first-encounter order of
\* the aggregation keys, before the sort: the item of the k-th new key (from
\* 0) has id item-k, the ids of one result are pairwise distinct and are
\* exactly item-0 ... item-(n-1) for a result of n items.
C24_IdsInEncounterOrder ==
    AggReturned =>
        LET entries == PlanEntries(meal_plan)
            firsts == FirstEncounters(entries)
            n == Len(result.items)
        IN  /\ n = Cardinality(firsts)
            /\ \A i \in firsts :
                   \E k \in 1..n :
                      /\ result.items[k].id
                            = "item-" \o ToString(
                                  Cardinality({j \in firsts : j < i}))
                      /\ result.items[k].name
                            = Get(entries[i].ing, "name", Str("")).s
            /\ \A k, l \in 1..n :
                   k # l => result.items[k].id # result.items[l].id
            /\ {result.items[k].id : k \in 1..n}
                   = {"item-" \o ToString(k) : k \in 0..(n - 1)}

\* the sort moved the third key in front of the second, and one key was
\* met twice
C24_Witness ==
    /\ AggReturned
    /\ Len(result.items) >= 2
    /\ result.items[1].id = "item-2"
    /\ result.items[2].id = "item-1"
    /\ Len(PlanEntries(meal_plan)) > Len(result.items)

\* C28: the aggregator's output covers its plan - for a plan whose
\* ingredient names are strings, deterministic_completeness_check applied to
\* the ingredient entries of the plan and to aggregate_ingredients(plan)
\* returns has_missing False.
C28_AggregateCoversPlan ==
    LET entries == PlanEntries(meal_plan)
    IN  (/\ AggReturned
         /\ \A e \in Range(entries) :
                "name" \in DOMAIN e.ing /\ e.ing.name.tag = "str") =>
            LET wanted == [i \in 1..Len(entries) |-> entries[i].ing]
                listed == [k \in 1..Len(result.items) |->
                              [name |-> Str(result.items[k].name)]]
            IN  \A listing \in Listings(MissingNames(wanted, listed)) :
                   LET check == deterministic_completeness_check(wanted, listed,
                                                                 listing)
                   IN  ~check.raised /\ ~check.has_missing

(***************************************************************************)
(* Properties of the request handlers.                                     *)
(***************************************************************************)
Generating == op = "generate_meal_plan"

Parsable(r) == r.kind \in {"json", "repaired"}

Unparsable(r) == r.kind \in {"no_json", "bad_json"}

\* C30: meal-plan generation invokes the generator at most twice; the second
\* invocation follows a first response that had no JSON object or JSON that
\* could not be parsed even after repair; after a parsable response there is
\* no further invocation; when neither response is parsable the handler
\* raises and nothing has been written to the database
C30_BoundedGenerationRetry ==
    /\ [](Generating =>
            /\ attempt <= 2
            /\ (store # << >> => Parsable(response))
            /\ (attempt = 2 /\ Unparsable(response) =>
                   /\ pc = "raised"
                   /\ result.raised
                   /\ store = << >>))
    /\ [][Generating /\ attempt' # attempt =>
            /\ attempt' = attempt + 1
            /\ ~Parsable(response)
            /\ (attempt' = 2 => Unparsable(response))]_vars

\* the second response could not be parsed either
C30_Witness ==
    /\ Generating
    /\ attempt = 2
    /\ response.kind = "bad_json"
    /\ pc = "raised"
    /\ store = << >>

\* the evaluation records written to the database
EvaluationRecords == {i \in 1..Len(store) : store[i].kind = "evaluation"}

AbsDiff(a, b) == IF a >= b THEN a - b ELSE b - a

\* C26: in meal-plan generation the flag 'passed' of evaluation_scores, and
\* of the evaluation record written from it, is true exactly when the plan
\* passed dietary compliance; overall is 0.5 * compliance + 0.3 * variety +
\* 0.2 * nutrition rounded to thousandths with nutrition 1.0; a compliant
\* plan has overall >= 0.6 and a plan with a violation is not marked passed
C26_PassedIffCompliant ==
    Generating /\ pc \in {"persist", "returned"} =>
        LET compliance_result ==
                check_meal_plan_compliance(meal_plan, restrictions)
        IN  /\ evaluation_scores.passed = compliance_result.passed
            /\ \A i \in EvaluationRecords :
                  store[i].passed = compliance_result.passed
            /\ evaluation_scores.nutrition = 1
            /\ AbsDiff(10 * evaluation_scores.overall,
                       5000 * evaluation_scores.dietaryCompliance
                       + 3 * evaluation_scores.variety + 2000) <= 5
            /\ (compliance_result.passed => evaluation_scores.overall >= 600)
            /\ (compliance_result.violations # << >> =>
                   ~evaluation_scores.passed)

\* a compliant plan whose variety score is 0 is recorded as passed
C26_Witness ==
    /\ Generating
    /\ pc = "returned"
    /\ evaluation_scores.variety = 0
    /\ evaluation_scores.overall = 700
    /\ evaluation_scores.passed
    /\ \E i \in EvaluationRecords : store[i].passed

Regenerating == op = "regenerate_meal"

\* the evaluation the generation handler makes of the plan with these days
EvaluationOf(days) ==
    EvaluationScores(check_meal_plan_compliance([days |-> days], restrictions),
                     evaluate_meal_variety([days |-> days]),
                     evaluate_nutrition([days |-> days]))

\* C25: a generated plan or a regenerated meal is written to the database
\* only after its compliance evaluation has completed, and the evaluation
\* record written after it is the evaluation of what was written; in
\* regeneration that is the last generated meal, there is at most one retry,
\* and the retry follows a first meal that failed compliance
C25_EvaluateBeforePersist ==
    /\ [](/\ store # << >> =>
               /\ pc \in {"persist", "returned", "raised"}
               /\ evaluation_scores # NoResult
               /\ Parsable(response)
          /\ \A i \in 1..Len(store) :
               /\ store[i].kind = "meal_plan" =>
                     /\ store[i].days = DaysOf(response.value)
                     /\ store[i].evaluationScores = EvaluationOf(store[i].days)
               /\ store[i].kind = "meal" =>
                     store[i].new_meal = response.value
               /\ store[i].kind = "evaluation" =>
                     /\ i > 1
                     /\ IF Generating
                        THEN /\ store[i - 1].kind = "meal_plan"
                             /\ store[i].scores
                                  = EvaluationOf(store[i - 1].days)
                             /\ store[i].passed
                                  = EvaluationOf(store[i - 1].days).passed
                        ELSE LET compliance ==
                                     evaluate_dietary_compliance(
                                         store[i - 1].new_meal, restrictions)
                             IN  /\ store[i - 1].kind = "meal"
                                 /\ ~compliance.raised
                                 /\ store[i].scores.dietaryCompliance
                                      = compliance.score
                                 /\ store[i].passed = compliance.passed
          /\ (Regenerating => attempt <= 2))
    /\ [][Regenerating /\ attempt' # attempt =>
            /\ attempt' = attempt + 1
            /\ (attempt' = 2 =>
                   /\ response.kind = "json"
                   /\ ~evaluate_dietary_compliance(response.value,
                                                   restrictions).passed)]_vars

\* a retried meal that passes compliance is written with its own evaluation
C25_Witness ==
    /\ Regenerating
    /\ attempt = 2
    /\ Len(store) = 2
    /\ store[2].passed

(***************************************************************************)
(* Properties of concurrent calls on one plan.                             *)
(***************************************************************************)
\* what a call of fn returns when it is the only call on the plan
ResultAlone(fn, plan) ==
    IF fn = "aggregate_ingredients"
    THEN AggregateResult(AggregateAlone(AggregateEntered(plan)))
    ELSE ReadOnlyResult(fn, plan)

\* C22: in every interleaving of concurrent calls of the core functions on
\* one plan the plan stays as the caller built it and each call that has
\* ended returned what it returns when it runs alone on that plan
C22_PurityUnderConcurrency ==
    op = "concurrent" =>
        /\ meal_plan = calls.plan
        /\ \A t \in Threads :
              calls.thread[t].pc \in {"returned", "raised"} =>
                  calls.thread[t].result
                      = ResultAlone(calls.thread[t].fn, calls.plan)
====
